---- MODULE Spec2Model ----
(***************************************************************************)
(* cineDeep: the discussion threads (topics, posts, votes) and the cache / *)
(* quota layer in front of the metadata and text-generation providers.     *)
(* The relational store is the state; every route handler and storage      *)
(* function is an action or an operator translated from its source.        *)
(***************************************************************************)
EXTENDS Integers, Sequences, FiniteSets, Bags, TLC

(* ---- bounds of the model ---- *)
MaxTopics == 2
MaxPosts == 3
MaxTime == 2
NumVotePosts == 2
NumRacePosts == 1
MaxTicks == 2
MaxCycles == 6
MaxRequests == 2
MaxInsightTicks == 1
MaxListPosts == 2
MaxCredits == 4
MaxTokens == 1
NumProcs == 2

(* ---- program constants ---- *)
MinPrompt == 5
MaxPrompt == 500
MinBody == 1
MaxBody == 5000
(* the clock counts days *)
TMDB_TTL == 30
INSIGHTS_TTL == 90
DAILY_LIMIT == 5
QUOTA_WINDOW == 1
(* minutes, where the clock counts minutes: the sign-in specifications *)
TOKEN_TTL == 15
TrailingYears == 2
FarFuture == 9999
RecentLimit == 3

(* SQL NULL / JS null / undefined: an absent value *)
NULL == 0
(* the empty string, which zod's z.string().optional() accepts and JS treats as falsy *)
EmptyStr == -1

Users == {"u1", "u2"}
MediaTypes == {"movie", "tv"}
TmdbIds == {550}

(* A row carries the columns some operation reads; the text columns (title,   *)
(* prompt, body) and the columns that are only written (created_by, the      *)
(* topic's created_at, edited_at) are validated on the way in and not kept.  *)
VARIABLES
  now,        \* wall clock (new Date(), CURRENT_TIMESTAMP)
  topics,     \* discussion_topics: sequence of rows, row i has id i
  posts,      \* discussion_posts: sequence of rows, row i has id i
  votes,      \* post_votes: a bag of rows (a heap table may hold equal rows)
  vproc,      \* the vote requests in flight: each handler's position and locals
  lastToggle, \* history: the last completed toggleVote call and the one before it
  cacheKeyUnique, \* whether the database enforces unique (tmdb_id, media_type)
  tmdbCache,  \* tmdb_cache: set of rows
  insightsCache, \* insights_cache: set of rows
  quota,      \* user_insight_quota: set of rows, primary key userId
  lastPut,    \* history: per cache flavor and key, the last put call
  incCalls,   \* history: per user, incrementInsightCount calls in the running window
  qturn,      \* the user whose allowed checkQuota awaits its incrementQuota
  ticks,      \* how often the clock has been advanced by days
  iproc,      \* the insight requests in flight: each handler's position and locals
  aiCalls,    \* history: per subject, the provider calls of the insights route
  genAt,      \* history: per subject, when the provider last returned content for it
  paid,       \* history: per user, the provider calls made in the user's quota window
  nreq,       \* the insight requests started
  memCache,   \* the in-process Map of server/routes.ts: lowercased title -> insights
  users,      \* users: the emails that have a row (unique); a user's id is its email
  authTokens, \* auth_tokens: sequence of rows, row i has id i and hashes token i
  sessions,   \* sessions: sequence of rows, row i has id i
  aproc,      \* the verify requests in flight: each handler's position and locals
  resp        \* the last response sent by a route handler

threadVars == <<topics, posts>>
voteVars == <<votes, vproc, lastToggle>>
cacheVars == <<cacheKeyUnique, tmdbCache, insightsCache, lastPut>>
quotaVars == <<quota, incCalls, qturn>>
callVars == <<aiCalls, genAt, paid>>
insightVars == <<iproc, aiCalls, genAt, paid, nreq>>
authVars == <<users, authTokens, sessions, aproc>>
vars == <<now, topics, posts, votes, vproc, lastToggle, cacheKeyUnique, tmdbCache,
          insightsCache, quota, lastPut, incCalls, qturn, ticks, iproc, aiCalls,
          genAt, paid, nreq, memCache, users, authTokens, sessions, aproc, resp>>

(* an id that no row ever has: a request may name any string *)
GhostId == MaxTopics + MaxPosts + 1

TopicIds == 1..Len(topics)
PostIds == 1..Len(posts)

(* storage.getTopic *)
getTopic(topicId) ==
  {topics[i] : i \in {j \in TopicIds : j = topicId}}

(* storage.getPostById *)
getPostById(postId) ==
  {posts[i] : i \in {j \in PostIds : j = postId}}

(* storage.getPostsForTopic: the rows of one topic *)
getPostsForTopic(topicId) ==
  {posts[i] : i \in {j \in PostIds : posts[j].topicId = topicId}}

(* a schema whose prompt has no upper limit *)
createTopicSchema_NoMax(req) ==
  /\ req.mediaType \in MediaTypes
  /\ req.promptLen >= MinPrompt

(* createTopicSchema: prompt: z.string().min(5).max(500), mediaType: z.enum *)
createTopicSchema(req) ==
  /\ req.mediaType \in MediaTypes
  /\ req.promptLen >= MinPrompt
  /\ req.promptLen <= MaxPrompt

(* createPostSchema: body: z.string().min(1).max(5000) *)
createPostSchema(req) ==
  /\ req.bodyLen >= MinBody
  /\ req.bodyLen <= MaxBody

(* JS truthiness of an optional string: undefined and "" are falsy *)
Truthy(s) == s # NULL /\ s # EmptyStr

(* the depth calculation of POST /api/topics/:topicId/posts *)
CalcDepth(topicId, parentPostId) ==
  LET found == IF Truthy(parentPostId)
               THEN {p \in getPostsForTopic(topicId) : p.id = parentPostId}
               ELSE {}
  IN  IF found # {} THEN (CHOOSE p \in found : TRUE).depth + 1 ELSE 0

(* parsed.data.parentPostId || null *)
OrNull(s) == IF Truthy(s) THEN s ELSE NULL

(* a table left as it is when a post is created *)
updateTopicActivity_Skipped(ts, topicId) == ts

(* storage.updateTopicActivity *)
updateTopicActivity(ts, topicId) ==
  [i \in DOMAIN ts |->
     IF i = topicId THEN [ts[i] EXCEPT !.lastActivityAt = now] ELSE ts[i]]

PromptLens == {MinPrompt - 1, MinPrompt, MaxPrompt, MaxPrompt + 1}
BodyLens == {MinBody - 1, MinBody, MaxBody, MaxBody + 1}

(* POST /api/topics *)
CreateTopic(u, req) ==
  /\ Len(topics) < MaxTopics
  /\ IF ~createTopicSchema(req)
     THEN /\ resp' = [op |-> "createTopic", status |-> 400, id |-> NULL]
          /\ UNCHANGED <<topics>>
     ELSE /\ topics' = Append(topics,
                 [id |-> Len(topics) + 1, tmdbId |-> req.tmdbId,
                  mediaType |-> req.mediaType, lastActivityAt |-> now])
          /\ resp' = [op |-> "createTopic", status |-> 200,
                      id |-> Len(topics) + 1]
  /\ UNCHANGED <<now, ticks, posts, voteVars, cacheVars, quotaVars, insightVars, memCache, authVars>>

(* POST /api/topics/:topicId/posts *)
CreatePost(u, req) ==
  /\ Len(posts) < MaxPosts
  /\ IF ~createPostSchema(req)
     THEN /\ resp' = [op |-> "createPost", status |-> 400, id |-> NULL]
          /\ UNCHANGED <<topics, posts>>
     ELSE IF getTopic(req.topicId) = {}
     THEN /\ resp' = [op |-> "createPost", status |-> 404, id |-> NULL]
          /\ UNCHANGED <<topics, posts>>
     ELSE /\ posts' = Append(posts,
                 [id |-> Len(posts) + 1, topicId |-> req.topicId,
                  parentPostId |-> OrNull(req.parentPostId), authorId |-> u,
                  depth |-> CalcDepth(req.topicId, req.parentPostId),
                  createdAt |-> now])
          /\ topics' = updateTopicActivity(topics, req.topicId)
          /\ resp' = [op |-> "createPost", status |-> 200,
                      id |-> Len(posts) + 1]
  /\ UNCHANGED <<now, ticks, voteVars, cacheVars, quotaVars, insightVars, memCache, authVars>>

(* time passes *)
Tick ==
  /\ now < MaxTime
  /\ now' = now + 1
  /\ UNCHANGED <<ticks, topics, posts, voteVars, cacheVars, quotaVars, resp, insightVars, memCache, authVars>>

TopicReqs ==
  [tmdbId : TmdbIds, mediaType : MediaTypes \cup {"book"}, promptLen : PromptLens]

PostReqs ==
  [topicId : TopicIds \cup {GhostId},
   parentPostId : {NULL, EmptyStr, GhostId} \cup PostIds,
   bodyLen : BodyLens]

Procs == 1..NumProcs

IdleProc == [pc |-> "idle", postId |-> NULL, userId |-> "", existing |-> FALSE]
NoToggle ==
  [postId |-> NULL, userId |-> "", before |-> EmptyBag, voted |-> FALSE,
   newCount |-> 0, repeat |-> FALSE, origin |-> EmptyBag]

CacheKeys == TmdbIds \X MediaTypes
(* the subjects of a user who asks for more than a day's quota of insights *)
PaidTmdbIds == {550, 551, 552}
AllKeys == PaidTmdbIds \X MediaTypes
NoGen == -1

(* details.title || details.name of each subject, as the metadata provider
   reports it: distinct subjects may carry one title *)
TitleOf ==
  [k \in AllKeys |->
     CASE k[1] = 550 -> IF k[2] = "movie" THEN "Dune" ELSE "dune"
       [] k[1] = 551 -> IF k[2] = "movie" THEN "Heat" ELSE "HEAT"
       [] OTHER -> "Crash"]

(* String.prototype.toLowerCase on the titles above *)
ToLowerCase(t) ==
  CASE t \in {"Dune", "dune"} -> "dune"
    [] t \in {"Heat", "HEAT"} -> "heat"
    [] t = "Crash" -> "crash"

LowerTitles == {ToLowerCase(TitleOf[k]) : k \in AllKeys}
NoWindow == -1
Flavors == {"tmdb", "insights"}
NoPut == [none |-> TRUE]
NoUser == ""

IdleInsight ==
  [pc |-> "idle", userId |-> NoUser, key |-> <<0, "">>, qrows |-> {},
   content |-> "none", insights |-> [null |-> TRUE], calls |-> 0,
   incremented |-> FALSE, countAtBegin |-> 0]

(* a verify handler that is not running *)
IdleVerify == [pc |-> "idle", token |-> NULL, hasName |-> FALSE, tokenId |-> NULL,
               email |-> ""]

(* the empty cache and quota tables; the clock at 0; no insight request; no
   user, login token or session *)
InitCacheQuota ==
  /\ users = {}
  /\ authTokens = <<>>
  /\ sessions = <<>>
  /\ aproc = [p \in 1..NumProcs |-> IdleVerify]
  /\ iproc = [p \in Procs |-> IdleInsight]
  /\ aiCalls = [k \in AllKeys |-> 0]
  /\ genAt = [k \in AllKeys |-> NoGen]
  /\ paid = [u \in Users |-> [window |-> NoWindow, n |-> 0]]
  /\ nreq = 0
  /\ memCache = [t \in LowerTitles |-> [null |-> TRUE]]
  /\ now = 0
  /\ ticks = 0
  /\ cacheKeyUnique \in BOOLEAN
  /\ tmdbCache = {}
  /\ insightsCache = {}
  /\ quota = {}
  /\ lastPut = [f \in Flavors |-> [k \in AllKeys |-> NoPut]]
  /\ incCalls = [u \in Users |-> 0]
  /\ qturn = NoUser

Init ==
  /\ InitCacheQuota
  /\ topics = <<>>
  /\ posts = <<>>
  /\ votes = EmptyBag
  /\ vproc = [p \in Procs |-> IdleProc]
  /\ lastToggle = NoToggle
  /\ resp = [op |-> "none", status |-> 0, id |-> NULL]

NextThread ==
  \/ \E u \in Users, req \in TopicReqs : CreateTopic(u, req)
  \/ \E u \in Users, req \in PostReqs : CreatePost(u, req)
  \/ Tick

SpecThread == Init /\ [][NextThread]_vars

(* the topic route alone *)
NextTopic ==
  \/ \E u \in Users, req \in TopicReqs : CreateTopic(u, req)
  \/ Tick

SpecTopic == Init /\ [][NextTopic]_vars

(* ------------------------------------------------------------------ *)
(* Votes                                                               *)
(* ------------------------------------------------------------------ *)

RECURSIVE SumOver(_, _)
(* the sum of f[e] over the finite set S *)
SumOver(S, f) ==
  IF S = {} THEN 0
  ELSE LET e == CHOOSE x \in S : TRUE IN f[e] + SumOver(S \ {e}, f)

VoteRow(postId, userId) == [postId |-> postId, userId |-> userId, value |-> 1]

(* select().from(postVotes).where(postId = .. and userId = ..) *)
selectVote(vs, postId, userId) ==
  {r \in BagToSet(vs) : r.postId = postId /\ r.userId = userId}

(* a delete that forgets the userId condition *)
deleteVote_IgnoresUser(vs, postId, userId) ==
  LET keep == {r \in BagToSet(vs) : r.postId # postId}
  IN  [r \in keep |-> vs[r]]

(* delete(postVotes).where(postId = .. and userId = ..): every matching row *)
deleteVote(vs, postId, userId) ==
  LET keep == {r \in BagToSet(vs) : ~(r.postId = postId /\ r.userId = userId)}
  IN  [r \in keep |-> vs[r]]

(* a post_votes table without its composite primary key *)
PrimaryKeyConflict_NoKey(vs, postId, userId) == FALSE

(* primaryKey({ columns: [postId, userId] }): an insert of a present key is refused *)
PrimaryKeyConflict(vs, postId, userId) ==
  selectVote(vs, postId, userId) # {}

(* insert(postVotes).values({ postId, userId, value: 1 }) once the key is free *)
insertVote(vs, postId, userId) ==
  vs (+) SetToBag({VoteRow(postId, userId)})

(* coalesce(sum(value), 0) over the rows of one post *)
voteCount(vs, postId) ==
  LET rows == {r \in BagToSet(vs) : r.postId = postId}
  IN  SumOver(rows, [r \in rows |-> r.value * CopiesIn(r, vs)])

(* the rows of the pair (postId, userId) the store holds *)
RowsOfPair(vs, postId, userId) ==
  SumOver(selectVote(vs, postId, userId),
          [r \in selectVote(vs, postId, userId) |-> CopiesIn(r, vs)])

VoteResp(status, voted, newCount) ==
  [op |-> "vote", status |-> status, id |-> NULL, voted |-> voted, newCount |-> newCount]

(* the history of completed toggleVote calls *)
Completed(postId, userId, before, voted, newCount) ==
  [postId |-> postId, userId |-> userId, before |-> before, voted |-> voted,
   newCount |-> newCount,
   repeat |-> (lastToggle.postId = postId /\ lastToggle.userId = userId),
   origin |-> lastToggle.before]

(* POST /api/posts/:postId/vote with storage.toggleVote, run without interleaving *)
ToggleVote(u, postId) ==
  /\ \A p \in Procs : vproc[p].pc = "idle"
  /\ IF getPostById(postId) = {}
     THEN /\ resp' = VoteResp(404, FALSE, 0)
          /\ UNCHANGED <<votes, lastToggle>>
     ELSE LET existing == selectVote(votes, postId, u) # {}
              after == IF existing THEN deleteVote(votes, postId, u)
                       ELSE insertVote(votes, postId, u)
          IN  /\ votes' = after
              /\ resp' = VoteResp(200, ~existing, voteCount(after, postId))
              /\ lastToggle' = Completed(postId, u, votes, ~existing,
                                         voteCount(after, postId))
  /\ UNCHANGED <<now, ticks, threadVars, vproc, cacheVars, quotaVars, insightVars, memCache, authVars>>

(* the same handler step by step: each await is one step of the store *)
VoteBegin(p, u, postId) ==
  /\ vproc[p].pc = "idle"
  /\ IF getPostById(postId) = {}
     THEN /\ resp' = VoteResp(404, FALSE, 0)
          /\ UNCHANGED vproc
     ELSE /\ vproc' = [vproc EXCEPT ![p] =
                 [pc |-> "read", postId |-> postId, userId |-> u, existing |-> FALSE]]
          /\ UNCHANGED resp
  /\ UNCHANGED <<now, ticks, threadVars, votes, lastToggle, cacheVars, quotaVars, insightVars, memCache, authVars>>

VoteRead(p) ==
  /\ vproc[p].pc = "read"
  /\ vproc' = [vproc EXCEPT ![p].pc = "write",
                            ![p].existing = selectVote(votes, vproc[p].postId, vproc[p].userId) # {}]
  /\ UNCHANGED <<now, ticks, threadVars, votes, lastToggle, cacheVars, quotaVars, resp, insightVars, memCache, authVars>>

VoteWrite(p) ==
  /\ vproc[p].pc = "write"
  /\ IF vproc[p].existing
     THEN /\ votes' = deleteVote(votes, vproc[p].postId, vproc[p].userId)
          /\ vproc' = [vproc EXCEPT ![p].pc = "count"]
          /\ UNCHANGED resp
     ELSE IF PrimaryKeyConflict(votes, vproc[p].postId, vproc[p].userId)
     THEN \* the insert throws; the route's catch answers 500
          /\ resp' = VoteResp(500, FALSE, 0)
          /\ vproc' = [vproc EXCEPT ![p] = IdleProc]
          /\ UNCHANGED votes
     ELSE /\ votes' = insertVote(votes, vproc[p].postId, vproc[p].userId)
          /\ vproc' = [vproc EXCEPT ![p].pc = "count"]
          /\ UNCHANGED resp
  /\ UNCHANGED <<now, ticks, threadVars, lastToggle, cacheVars, quotaVars, insightVars, memCache, authVars>>

VoteCount(p) ==
  /\ vproc[p].pc = "count"
  /\ resp' = VoteResp(200, ~vproc[p].existing, voteCount(votes, vproc[p].postId))
  /\ vproc' = [vproc EXCEPT ![p] = IdleProc]
  /\ UNCHANGED <<now, ticks, threadVars, votes, lastToggle, cacheVars, quotaVars, insightVars, memCache, authVars>>

(* a store that already holds one topic with n top-level posts *)
InitVoteWith(n) ==
  /\ InitCacheQuota
  /\ topics = <<[id |-> 1, tmdbId |-> 550, mediaType |-> "movie", lastActivityAt |-> 0]>>
  /\ posts = [i \in 1..n |->
               [id |-> i, topicId |-> 1, parentPostId |-> NULL, authorId |-> "u1",
                depth |-> 0, createdAt |-> 0]]
  /\ votes = EmptyBag
  /\ vproc = [p \in Procs |-> IdleProc]
  /\ lastToggle = NoToggle
  /\ resp = [op |-> "none", status |-> 0, id |-> NULL]

InitVote == InitVoteWith(NumVotePosts)

NextVoteSeq ==
  \E u \in Users, postId \in PostIds \cup {GhostId} : ToggleVote(u, postId)

SpecVoteSeq == InitVote /\ [][NextVoteSeq]_vars

NextVote ==
  \/ \E p \in Procs, u \in Users, postId \in PostIds \cup {GhostId} : VoteBegin(p, u, postId)
  \/ \E p \in Procs : VoteRead(p)
  \/ \E p \in Procs : VoteWrite(p)
  \/ \E p \in Procs : VoteCount(p)

InitRace == InitVoteWith(NumRacePosts)

SpecVote == InitRace /\ [][NextVote]_vars

(* ------------------------------------------------------------------ *)
(* Cache and quota store (server/cache.ts)                             *)
(* ------------------------------------------------------------------ *)

(* the payloads a provider can answer with: JSON values *)
TmdbData == {[obj |-> "d1"], [obj |-> "d2"]}
InsightLists == {[list |-> 4], [list |-> 0]}

(* what a get returns on a miss: null *)
Miss == [null |-> TRUE]

(* JSON.stringify: the text of a JSON value *)
Stringify(v) == [text |-> v]
(* JSON.parse of a stored text *)
Parse(t) == t.text

(* where(tmdbId = .., mediaType = .., expiresAt > new Date()) *)
LiveRows(rows, tmdbId, mediaType) ==
  {r \in rows : r.tmdbId = tmdbId /\ r.mediaType = mediaType /\ r.expiresAt > now}

(* the rows an insert of the key conflicts with *)
SameKey(rows, tmdbId, mediaType) ==
  {r \in rows : r.tmdbId = tmdbId /\ r.mediaType = mediaType}

(* a plain insert(..).values(..): the row is added next to the rows of its key *)
Upsert_Append(rows, row) == rows \cup {row}

(* insert(..).onConflictDoUpdate({target: [tmdbId, mediaType], set: {payload,
   expiresAt}}): Postgres refuses the statement (42P10) when no unique index
   covers the conflict target; with the index the row of the key is replaced *)
Upsert(rows, row) ==
  IF cacheKeyUnique
  THEN (rows \ SameKey(rows, row.tmdbId, row.mediaType)) \cup {row}
  ELSE rows

(* getTMDBFromCache *)
getTMDBFromCache(tmdbId, mediaType) ==
  LET cached == LiveRows(tmdbCache, tmdbId, mediaType)
  IN  IF cached # {} THEN Parse((CHOOSE r \in cached : TRUE).data) ELSE Miss

(* cacheTMDBData: the table after the call; a failed write is caught and logged *)
cacheTMDBData(tmdbId, mediaType, data) ==
  Upsert(tmdbCache, [tmdbId |-> tmdbId, mediaType |-> mediaType,
                     data |-> Stringify(data), expiresAt |-> now + TMDB_TTL])

(* getInsightsFromCache *)
getInsightsFromCache(tmdbId, mediaType) ==
  LET cached == LiveRows(insightsCache, tmdbId, mediaType)
  IN  IF cached # {} THEN Parse((CHOOSE r \in cached : TRUE).data) ELSE Miss

(* cacheInsights: the table after the call; a failed write is caught and logged *)
cacheInsights(tmdbId, mediaType, insights) ==
  Upsert(insightsCache, [tmdbId |-> tmdbId, mediaType |-> mediaType,
                         data |-> Stringify(insights),
                         expiresAt |-> now + INSIGHTS_TTL])

(* select().from(userInsightQuota).where(userId = ..).limit(1) *)
QuotaRows(q, userId) == {r \in q : r.userId = userId}

(* a window that is over only after more than a day *)
WindowElapsed_Strict(row) == now - row.lastResetAt > QUOTA_WINDOW

(* daysSinceReset >= 1 *)
WindowElapsed(row) == now - row.lastResetAt >= QUOTA_WINDOW

(* checkInsightQuota after its select returned rows: the answer *)
quotaAnswer(rows) ==
  IF rows = {} THEN TRUE
  ELSE LET row == CHOOSE r \in rows : TRUE
       IN  IF WindowElapsed(row) THEN TRUE
           ELSE row.insightsGeneratedToday < row.dailyLimit

(* checkInsightQuota after its select returned rows: the table after the insert
   or update; an insert refused by the primary key is caught (the answer stays
   allow) *)
quotaTableAfter(rows, userId) ==
  IF rows = {}
  THEN IF QuotaRows(quota, userId) # {} THEN quota
       ELSE quota \cup {[userId |-> userId, insightsGeneratedToday |-> 0,
                         dailyLimit |-> DAILY_LIMIT, lastResetAt |-> now]}
  ELSE IF WindowElapsed(CHOOSE r \in rows : TRUE)
       THEN {IF r.userId = userId
             THEN [r EXCEPT !.insightsGeneratedToday = 0, !.lastResetAt = now]
             ELSE r : r \in quota}
       ELSE quota

(* whether the call starts a window: the row is created or reset *)
quotaStartsWindow(rows) ==
  IF rows = {} THEN TRUE ELSE WindowElapsed(CHOOSE r \in rows : TRUE)

(* checkInsightQuota with nothing interleaved: the answer *)
checkInsightQuota(userId) == quotaAnswer(QuotaRows(quota, userId))

(* checkInsightQuota with nothing interleaved: the table after the call *)
checkInsightQuotaRows(userId) == quotaTableAfter(QuotaRows(quota, userId), userId)

(* the JS value of <column object> + 1: "+" on an object and a number converts
   the object to the string "[object Object]" and concatenates *)
ColumnPlusOne == [type |-> "string", value |-> "[object Object]1"]

(* an integer column takes a number; any other text is refused (22P02) *)
IntegerColumnAccepts(v) == v.type = "number"

(* incrementInsightCount: the table after the call; a failed update is caught
   and logged *)
incrementInsightCount(userId) ==
  IF IntegerColumnAccepts(ColumnPlusOne)
  THEN {IF r.userId = userId
        THEN [r EXCEPT !.insightsGeneratedToday = ColumnPlusOne.value] ELSE r : r \in quota}
  ELSE quota

(* the increments called for the user since the window of its row began *)
CallsInWindow(userId) ==
  IF quotaStartsWindow(QuotaRows(quota, userId)) THEN 0 ELSE incCalls[userId]

(* insightsGeneratedToday of the user's row; 0 while there is no row *)
QuotaCount(q, userId) ==
  IF QuotaRows(q, userId) = {} THEN 0
  ELSE (CHOOSE r \in QuotaRows(q, userId) : TRUE).insightsGeneratedToday

CacheResp(op, key, result) ==
  [op |-> op, status |-> 200, id |-> NULL, key |-> key, result |-> result]

(* what a put call leaves to observe: the payload it was given and whether the
   table held a row of the key when the statement ran *)
PutResp(op, key, result, rows) ==
  [op |-> op, status |-> 200, id |-> NULL, key |-> key, result |-> result,
   existing |-> SameKey(rows, key[1], key[2]) # {}]

(* a call of cacheTMDBData *)
PutTMDB(k, data) ==
  /\ tmdbCache' = cacheTMDBData(k[1], k[2], data)
  /\ lastPut' = [lastPut EXCEPT !["tmdb"][k] = [data |-> data, at |-> now]]
  /\ resp' = PutResp("putTMDB", k, data, tmdbCache)
  /\ UNCHANGED <<now, ticks, threadVars, voteVars, cacheKeyUnique, insightsCache, quotaVars, insightVars, memCache, authVars>>

(* a call of getTMDBFromCache *)
GetTMDB(k) ==
  /\ resp' = CacheResp("getTMDB", k, getTMDBFromCache(k[1], k[2]))
  /\ UNCHANGED <<now, ticks, threadVars, voteVars, cacheVars, quotaVars, insightVars, memCache, authVars>>

(* a call of cacheInsights *)
PutInsights(k, insights) ==
  /\ insightsCache' = cacheInsights(k[1], k[2], insights)
  /\ lastPut' = [lastPut EXCEPT !["insights"][k] = [data |-> insights, at |-> now]]
  /\ resp' = PutResp("putInsights", k, insights, insightsCache)
  /\ UNCHANGED <<now, ticks, threadVars, voteVars, cacheKeyUnique, tmdbCache, quotaVars, insightVars, memCache, authVars>>

(* a call of getInsightsFromCache *)
GetInsights(k) ==
  /\ resp' = CacheResp("getInsights", k, getInsightsFromCache(k[1], k[2]))
  /\ UNCHANGED <<now, ticks, threadVars, voteVars, cacheVars, quotaVars, insightVars, memCache, authVars>>

DaySteps == {1, TMDB_TTL - 1, INSIGHTS_TTL - 1}

(* days pass *)
AdvanceDays(d) ==
  /\ ticks < MaxTicks
  /\ ticks' = ticks + 1
  /\ now' = now + d
  /\ UNCHANGED <<threadVars, voteVars, cacheVars, quotaVars, resp, insightVars, memCache, authVars>>

QuotaResp(op, userId, allow, used) ==
  [op |-> op, status |-> 200, id |-> NULL, userId |-> userId, allow |-> allow,
   used |-> used]

(* a call of checkInsightQuota; an allowed check is followed by the increment *)
CheckQuota(u) ==
  /\ qturn = NoUser
  /\ quota' = checkInsightQuotaRows(u)
  /\ resp' = QuotaResp("checkQuota", u, checkInsightQuota(u), CallsInWindow(u))
  /\ incCalls' = [incCalls EXCEPT ![u] = CallsInWindow(u)]
  /\ qturn' = IF checkInsightQuota(u) THEN u ELSE NoUser
  /\ UNCHANGED <<now, ticks, threadVars, voteVars, cacheVars, insightVars, memCache, authVars>>

(* a call of incrementInsightCount after a successful generation *)
IncrementQuota(u) ==
  /\ qturn = u
  /\ incCalls[u] < MaxCycles
  /\ quota' = incrementInsightCount(u)
  /\ incCalls' = [incCalls EXCEPT ![u] = incCalls[u] + 1]
  /\ qturn' = NoUser
  /\ resp' = QuotaResp("incrementQuota", u, TRUE, incCalls[u] + 1)
  /\ UNCHANGED <<now, ticks, threadVars, voteVars, cacheVars, insightVars, memCache, authVars>>

InitStore ==
  /\ InitCacheQuota
  /\ topics = <<>>
  /\ posts = <<>>
  /\ votes = EmptyBag
  /\ vproc = [p \in Procs |-> IdleProc]
  /\ lastToggle = NoToggle
  /\ resp = [op |-> "none", status |-> 0, id |-> NULL]

NextCache ==
  \/ \E k \in CacheKeys, d \in TmdbData : PutTMDB(k, d)
  \/ \E k \in CacheKeys : GetTMDB(k)
  \/ \E k \in CacheKeys, i \in InsightLists : PutInsights(k, i)
  \/ \E k \in CacheKeys : GetInsights(k)
  \/ \E d \in DaySteps : AdvanceDays(d)

SpecCache == InitStore /\ [][NextCache]_vars

NextQuota ==
  \/ \E u \in Users : CheckQuota(u)
  \/ \E u \in Users : IncrementQuota(u)
  \/ \E d \in DaySteps : AdvanceDays(d)

SpecQuota == InitStore /\ [][NextQuota]_vars

(* ------------------------------------------------------------------ *)
(* POST /api/title/:type/:id/insights                                  *)
(* ------------------------------------------------------------------ *)

(* what openai.chat.completions.create can do: throw, answer without content,
   or answer with content that is no JSON or that is a list of insights *)
ProviderOutcomes == {"throws", "empty", "notjson", "list4"}

(* a handler that goes on with an answer that has no content *)
ProviderFailed_OnlyThrow(outcome) == outcome = "throws"

(* the provider call failed: it threw, or response.choices[0]?.message?.content is empty *)
ProviderFailed(outcome) == outcome \in {"throws", "empty"}

(* JSON.parse(content) and parsed.insights || [], with ids added; [] when the
   content does not parse *)
ParseInsights(content) ==
  IF content = "list4" THEN [list |-> 4] ELSE [list |-> 0]

(* contents the provider can answer with besides those of ProviderOutcomes:
   "nokey" parses to an object without an insights member, "notlist" parses to
   an object whose insights member is not an array *)
ProviderContents == ProviderOutcomes \cup {"nokey", "notlist"}

(* insights.map(..) throws a TypeError when parsed.insights is truthy and not
   an array; the handler's outer catch answers 500 *)
MapThrows(content) == content = "notlist"

(* type === 'movie' ? 'movie' : 'tv' *)
MediaTypeOf(type) == IF type = "movie" THEN "movie" ELSE "tv"

InsightResp(status, p, result) ==
  [op |-> "insights", status |-> status, id |-> NULL,
   known |-> iproc[p].userId # NoUser, result |-> result]

(* a handler that checks the quota of every request, known user or not *)
PcAfter_AlwaysCheckQuota(pc, known) ==
  CASE pc = "cache" -> "quotaRead"
    [] pc = "quotaWrite" -> "provider"
    [] pc = "provider" -> "store"
    [] pc = "store" -> IF known THEN "incr" ELSE "done"
    [] pc = "incr" -> "done"

(* the order of the handler's steps after the cache missed *)
PcAfter_IncrementFirst(pc, known) ==
  CASE pc = "cache" -> IF known THEN "quotaRead" ELSE "provider"
    [] pc = "quotaWrite" -> "incr"
    [] pc = "incr" -> "provider"
    [] pc = "provider" -> "store"
    [] pc = "store" -> "done"

(* the order of the handler's steps after the cache missed: quota check (known
   user), provider call, cache write, quota increment (known user), response *)
PcAfter(pc, known) ==
  CASE pc = "cache" -> IF known THEN "quotaRead" ELSE "provider"
    [] pc = "quotaWrite" -> "provider"
    [] pc = "provider" -> "store"
    [] pc = "store" -> IF known THEN "incr" ELSE "done"
    [] pc = "incr" -> "done"

(* the handler moves on: to its next await, or to res.json(insightsWithIds) *)
Proceed(p, from, locals) ==
  LET to == PcAfter(from, locals.userId # NoUser)
  IN  IF to = "done"
      THEN /\ resp' = InsightResp(200, p, locals.insights)
           /\ iproc' = [iproc EXCEPT ![p] = IdleInsight]
      ELSE /\ iproc' = [iproc EXCEPT ![p] = [locals EXCEPT !.pc = to]]
           /\ UNCHANGED resp

(* the request arrives; optionalAuthMiddleware attached u (or nobody) *)
InsightBeginUpTo(p, u, type, id, hasTitle, max) ==
  /\ iproc[p].pc = "idle"
  /\ nreq < max
  /\ nreq' = nreq + 1
  /\ IF ~hasTitle
     THEN /\ resp' = [op |-> "insights", status |-> 400, id |-> NULL,
                      known |-> u # NoUser, result |-> Miss]
          /\ UNCHANGED iproc
     ELSE /\ iproc' = [iproc EXCEPT ![p] =
                 [IdleInsight EXCEPT !.pc = "cache", !.userId = u,
                                     !.key = <<id, MediaTypeOf(type)>>,
                                     !.countAtBegin = QuotaCount(quota, u)]]
          /\ UNCHANGED resp
  /\ UNCHANGED <<now, ticks, threadVars, voteVars, cacheVars, quotaVars, callVars, memCache, authVars>>

InsightBegin(p, u, type, id, hasTitle) ==
  InsightBeginUpTo(p, u, type, id, hasTitle, MaxRequests)

(* const cachedInsights = await getInsightsFromCache(tmdbId, mediaType) *)
InsightCacheLookup(p) ==
  /\ iproc[p].pc = "cache"
  /\ LET cached == getInsightsFromCache(iproc[p].key[1], iproc[p].key[2])
     IN  IF cached # Miss
         THEN /\ resp' = InsightResp(200, p, cached)
              /\ iproc' = [iproc EXCEPT ![p] = IdleInsight]
         ELSE Proceed(p, "cache", iproc[p])
  /\ UNCHANGED <<now, ticks, threadVars, voteVars, cacheVars, quotaVars, callVars, nreq, memCache, authVars>>

(* checkInsightQuota: the select *)
InsightQuotaRead(p) ==
  /\ iproc[p].pc = "quotaRead"
  /\ iproc' = [iproc EXCEPT ![p].pc = "quotaWrite",
                            ![p].qrows = QuotaRows(quota, iproc[p].userId)]
  /\ UNCHANGED <<now, ticks, threadVars, voteVars, cacheVars, quotaVars, callVars, nreq, resp, memCache, authVars>>

(* checkInsightQuota: the insert or update, and the 429 of the handler *)
InsightQuotaWrite(p) ==
  /\ iproc[p].pc = "quotaWrite"
  /\ quota' = quotaTableAfter(iproc[p].qrows, iproc[p].userId)
  /\ incCalls' = IF quotaStartsWindow(iproc[p].qrows)
                 THEN [incCalls EXCEPT ![iproc[p].userId] = 0] ELSE incCalls
  /\ IF quotaAnswer(iproc[p].qrows)
     THEN Proceed(p, "quotaWrite", [iproc[p] EXCEPT !.qrows = {}])
     ELSE /\ resp' = InsightResp(429, p, Miss)
          /\ iproc' = [iproc EXCEPT ![p] = IdleInsight]
  /\ UNCHANGED <<now, ticks, threadVars, voteVars, cacheVars, qturn, callVars, nreq, memCache, authVars>>

(* the user's paid calls after one more: counted within the window of the
   user's quota row *)
PaidAfterCall(count, rows) ==
  LET w == IF rows = {} THEN NoWindow ELSE (CHOOSE r \in rows : TRUE).lastResetAt
  IN  IF count.window = w THEN [count EXCEPT !.n = @ + 1]
      ELSE [window |-> w, n |-> 1]

(* await openai.chat.completions.create(...) and the parse of its content *)
InsightProvider(p, outcome) ==
  /\ iproc[p].pc = "provider"
  /\ aiCalls' = [aiCalls EXCEPT ![iproc[p].key] = aiCalls[iproc[p].key] + 1]
  /\ genAt' = IF ProviderFailed(outcome) \/ MapThrows(outcome) THEN genAt
              ELSE [genAt EXCEPT ![iproc[p].key] = now]
  /\ paid' = IF iproc[p].userId = NoUser THEN paid
             ELSE [paid EXCEPT ![iproc[p].userId] =
                     PaidAfterCall(paid[iproc[p].userId],
                                   QuotaRows(quota, iproc[p].userId))]
  /\ IF ProviderFailed(outcome) \/ MapThrows(outcome)
     THEN /\ resp' = InsightResp(500, p, Miss)
          /\ iproc' = [iproc EXCEPT ![p] = IdleInsight]
     ELSE Proceed(p, "provider",
                  [iproc[p] EXCEPT !.content = outcome, !.calls = @ + 1,
                                   !.insights = ParseInsights(outcome)])
  /\ UNCHANGED <<now, ticks, threadVars, voteVars, cacheVars, quotaVars, nreq, memCache, authVars>>

(* await cacheInsights(tmdbId, mediaType, title, synopsis, insightsWithIds) *)
InsightStore(p) ==
  /\ iproc[p].pc = "store"
  /\ insightsCache' = cacheInsights(iproc[p].key[1], iproc[p].key[2], iproc[p].insights)
  /\ lastPut' = [lastPut EXCEPT !["insights"][iproc[p].key] =
                   [data |-> iproc[p].insights, at |-> now]]
  /\ Proceed(p, "store", iproc[p])
  /\ UNCHANGED <<now, ticks, threadVars, voteVars, cacheKeyUnique, tmdbCache, quotaVars,
                 callVars, nreq, memCache, authVars>>

(* await incrementInsightCount(userId) *)
InsightIncrement(p) ==
  /\ iproc[p].pc = "incr"
  /\ quota' = incrementInsightCount(iproc[p].userId)
  /\ incCalls' = [incCalls EXCEPT ![iproc[p].userId] = incCalls[iproc[p].userId] + 1]
  /\ Proceed(p, "incr", [iproc[p] EXCEPT !.incremented = TRUE])
  /\ UNCHANGED <<now, ticks, threadVars, voteVars, cacheVars, qturn, callVars, nreq, memCache, authVars>>

InsightSteps(p) ==
  \/ \E u \in Users \cup {NoUser}, type \in MediaTypes \cup {"person"}, id \in TmdbIds,
        hasTitle \in BOOLEAN : InsightBegin(p, u, type, id, hasTitle)
  \/ InsightCacheLookup(p)
  \/ InsightQuotaRead(p)
  \/ InsightQuotaWrite(p)
  \/ \E outcome \in ProviderOutcomes : InsightProvider(p, outcome)
  \/ InsightStore(p)
  \/ InsightIncrement(p)

(* the clock steps that matter to a request: the quota window, and what is
   left of the insight TTL after it *)
InsightDaySteps == {QUOTA_WINDOW, INSIGHTS_TTL - QUOTA_WINDOW}

(* days pass before, between and in the middle of the requests *)
InsightAdvanceDays(d) ==
  /\ ticks < MaxInsightTicks
  /\ AdvanceDays(d)

(* one insight request at a time *)
NextInsight ==
  \/ InsightSteps(1)
  \/ \E d \in InsightDaySteps : InsightAdvanceDays(d)

SpecInsight == InitStore /\ [][NextInsight]_vars

(* concurrent insight requests: the handlers interleave at their awaits *)
NextInsightRace ==
  \/ \E p \in Procs, u \in Users \cup {NoUser}, type \in MediaTypes, id \in TmdbIds :
        InsightBegin(p, u, type, id, TRUE)
  \/ \E p \in Procs : InsightCacheLookup(p)
  \/ \E p \in Procs : InsightQuotaRead(p)
  \/ \E p \in Procs : InsightQuotaWrite(p)
  \/ \E p \in Procs, outcome \in ProviderOutcomes : InsightProvider(p, outcome)
  \/ \E p \in Procs : InsightStore(p)
  \/ \E p \in Procs : InsightIncrement(p)

SpecInsightRace == InitStore /\ [][NextInsightRace]_vars

(* a check that answers deny when the store throws *)
quotaAnswerOnError_FailClosed == FALSE

(* checkInsightQuota's catch: return true *)
quotaAnswerOnError == TRUE

(* the handler after checkInsightQuota caught an error of the store *)
AfterQuotaError(p) ==
  IF quotaAnswerOnError
  THEN Proceed(p, "quotaWrite", [iproc[p] EXCEPT !.qrows = {}])
  ELSE /\ resp' = InsightResp(429, p, Miss)
       /\ iproc' = [iproc EXCEPT ![p] = IdleInsight]

(* checkInsightQuota: the select throws *)
QuotaReadFault(p) ==
  /\ iproc[p].pc = "quotaRead"
  /\ AfterQuotaError(p)
  /\ UNCHANGED <<now, ticks, threadVars, voteVars, cacheVars, quotaVars, callVars, nreq, memCache, authVars>>

(* checkInsightQuota: the first-time insert or the window-reset update throws *)
QuotaWriteFault(p) ==
  /\ iproc[p].pc = "quotaWrite"
  /\ quotaStartsWindow(iproc[p].qrows)
  /\ AfterQuotaError(p)
  /\ UNCHANGED <<now, ticks, threadVars, voteVars, cacheVars, quotaVars, callVars, nreq, memCache, authVars>>

(* the first-time insert of p meets the row another request has inserted since
   p's select *)
InsertConflict(p) ==
  /\ iproc[p].pc = "quotaWrite"
  /\ iproc[p].qrows = {}
  /\ QuotaRows(quota, iproc[p].userId) # {}

(* concurrent requests of one known user on a store that may throw *)
NextQuotaFault ==
  \/ \E p \in Procs, id \in TmdbIds : InsightBegin(p, "u1", "movie", id, TRUE)
  \/ \E p \in Procs : InsightCacheLookup(p)
  \/ \E p \in Procs : InsightQuotaRead(p)
  \/ \E p \in Procs : InsightQuotaWrite(p)
  \/ \E p \in Procs : QuotaReadFault(p)
  \/ \E p \in Procs : QuotaWriteFault(p)
  \/ \E p \in Procs : InsightProvider(p, "list4")
  \/ \E p \in Procs : InsightStore(p)
  \/ \E p \in Procs : InsightIncrement(p)
  \/ \E d \in InsightDaySteps : InsightAdvanceDays(d)

SpecQuotaFault == InitStore /\ [][NextQuotaFault]_vars

(* a cache layer whose catch blocks throw again *)
CacheErrorPropagates_Rethrow == TRUE

(* the catch blocks of cache.ts log the error and go on: nothing propagates *)
CacheErrorPropagates == FALSE

(* the TMDB API answered with an error status: fetchFromTMDB throws *)
LiveFailed == [error |-> TRUE]

(* fetchFromTMDB for /movie/<id> or /tv/<id>: cache lookup, live fetch, cache
   write; readFails / writeFails: the store throws in the lookup / the write *)
FetchFromTMDB(k, live, readFails, writeFails) ==
  LET cached == IF readFails THEN Miss ELSE getTMDBFromCache(k[1], k[2])
      failed == \/ (readFails \/ (cached = Miss /\ live # LiveFailed /\ writeFails))
                     /\ CacheErrorPropagates
                \/ cached = Miss /\ live = LiveFailed
  IN  /\ resp' = [op |-> "fetchFromTMDB", status |-> IF failed THEN 500 ELSE 200,
                  id |-> NULL, key |-> k,
                  result |-> IF failed THEN Miss
                             ELSE IF cached # Miss THEN cached ELSE live]
      /\ IF cached = Miss /\ live # LiveFailed /\ ~writeFails
            /\ ~(readFails /\ CacheErrorPropagates)
         THEN /\ tmdbCache' = cacheTMDBData(k[1], k[2], live)
              /\ lastPut' = [lastPut EXCEPT !["tmdb"][k] = [data |-> live, at |-> now]]
         ELSE UNCHANGED <<tmdbCache, lastPut>>
      /\ UNCHANGED <<now, ticks, threadVars, voteVars, cacheKeyUnique, insightsCache,
                     quotaVars, insightVars, memCache, authVars>>

(* the handler after a statement of cache.ts threw inside its try *)
AfterCacheError(p, from) ==
  IF CacheErrorPropagates
  THEN /\ resp' = InsightResp(500, p, Miss)
       /\ iproc' = [iproc EXCEPT ![p] = IdleInsight]
  ELSE Proceed(p, from, iproc[p])

(* getInsightsFromCache: the select throws *)
InsightCacheLookupFault(p) ==
  /\ iproc[p].pc = "cache"
  /\ AfterCacheError(p, "cache")
  /\ UNCHANGED <<now, ticks, threadVars, voteVars, cacheVars, quotaVars, callVars, nreq, memCache, authVars>>

(* cacheInsights: the insert throws *)
InsightStoreFault(p) ==
  /\ iproc[p].pc = "store"
  /\ AfterCacheError(p, "store")
  /\ UNCHANGED <<now, ticks, threadVars, voteVars, cacheVars, quotaVars, callVars, nreq, memCache, authVars>>

(* incrementInsightCount: the update throws *)
InsightIncrementFault(p) ==
  /\ iproc[p].pc = "incr"
  /\ incCalls' = [incCalls EXCEPT ![iproc[p].userId] = incCalls[iproc[p].userId] + 1]
  /\ AfterCacheError(p, "incr")
  /\ UNCHANGED <<now, ticks, threadVars, voteVars, cacheVars, quota, qturn, callVars, nreq, memCache, authVars>>

(* one request at a time on a store that may throw in the cache layer *)
NextCacheFault ==
  \/ \E id \in TmdbIds, live \in TmdbData \cup {LiveFailed}, rf, wf \in BOOLEAN :
        FetchFromTMDB(<<id, "movie">>, live, rf, wf)
  \/ \E u \in {"u1", NoUser}, id \in TmdbIds : InsightBegin(1, u, "movie", id, TRUE)
  \/ InsightCacheLookup(1)
  \/ InsightCacheLookupFault(1)
  \/ InsightQuotaRead(1)
  \/ InsightQuotaWrite(1)
  \/ \E outcome \in ProviderOutcomes : InsightProvider(1, outcome)
  \/ InsightStore(1)
  \/ InsightStoreFault(1)
  \/ InsightIncrement(1)
  \/ InsightIncrementFault(1)

SpecCacheFault == InitStore /\ [][NextCacheFault]_vars

(* ---- GET /api/title/:type/:id of server/routes.ts ---- *)

(* the insights the provider writes when asked about the title of subject k *)
GeneratedFor(k) == [for |-> k, list |-> 4]
NoInsights == [list |-> 0]

(* generateInsightsForTitle(title, synopsis) called for subject k: the
   in-process Map is keyed by the lowercased title; a failed or empty answer
   of the provider gives [] and is not kept *)
generateInsightsForTitle(k, providerAnswers) ==
  LET cacheKey == ToLowerCase(TitleOf[k])
  IN  IF memCache[cacheKey] # Miss THEN memCache[cacheKey]
      ELSE IF providerAnswers THEN GeneratedFor(k) ELSE NoInsights

(* GET /api/title/:type/:id: the details of the subject with deepDive: insights *)
TitleDetails(k, providerAnswers) ==
  LET cacheKey == ToLowerCase(TitleOf[k])
      insights == generateInsightsForTitle(k, providerAnswers)
  IN  /\ memCache' = IF memCache[cacheKey] = Miss /\ providerAnswers
                     THEN [memCache EXCEPT ![cacheKey] = insights]
                     ELSE memCache
      /\ resp' = [op |-> "titleDetails", status |-> 200, id |-> NULL, key |-> k,
                  result |-> insights]
      /\ UNCHANGED <<now, ticks, threadVars, voteVars, cacheVars, quotaVars,
                     insightVars, authVars>>

NextTitle ==
  \E k \in AllKeys, providerAnswers \in BOOLEAN : TitleDetails(k, providerAnswers)

SpecTitle == InitStore /\ [][NextTitle]_vars

(* one user asks for insights on one uncached subject after the other, one
   more than the daily limit, within one day *)
PaidOrder ==
  <<<<550, "movie">>, <<550, "tv">>, <<551, "movie">>, <<551, "tv">>,
    <<552, "movie">>, <<552, "tv">>>>

PaidBegin(p) ==
  InsightBeginUpTo(p, "u1", PaidOrder[nreq + 1][2], PaidOrder[nreq + 1][1], TRUE,
                   Len(PaidOrder))

NextPaid ==
  \/ \E p \in Procs : PaidBegin(p)
  \/ \E p \in Procs : InsightCacheLookup(p)
  \/ \E p \in Procs : InsightQuotaRead(p)
  \/ \E p \in Procs : InsightQuotaWrite(p)
  \/ \E p \in Procs : InsightProvider(p, "list4")
  \/ \E p \in Procs : InsightStore(p)
  \/ \E p \in Procs : InsightIncrement(p)

SpecPaid == InitStore /\ [][NextPaid]_vars

(* ------------------------------------------------------------------ *)
(* The thread writes when a storage step throws                        *)
(* ------------------------------------------------------------------ *)

(* the awaited storage calls of POST /api/topics/:topicId/posts, in order;
   "none": no call throws *)
PostFaults == {"none", "getTopic", "getPostsForTopic", "insert",
               "updateTopicActivity", "getUser"}

(* the awaited storage calls of POST /api/posts/:postId/vote, in order *)
VoteFaults == {"none", "getPostById", "select", "write", "count"}

PostResp(status, id) == [op |-> "createPost", status |-> status, id |-> id]

(* POST /api/topics/:topicId/posts where the storage call failAt throws: every
   statement before it has been committed, the catch answers 500 *)
CreatePostFault(u, req, failAt) ==
  /\ Len(posts) < MaxPosts
  /\ LET row == [id |-> Len(posts) + 1, topicId |-> req.topicId,
                 parentPostId |-> OrNull(req.parentPostId), authorId |-> u,
                 depth |-> CalcDepth(req.topicId, req.parentPostId),
                 createdAt |-> now]
     IN  IF ~createPostSchema(req)
         THEN resp' = PostResp(400, NULL) /\ UNCHANGED <<topics, posts>>
         ELSE IF failAt = "getTopic"
         THEN resp' = PostResp(500, NULL) /\ UNCHANGED <<topics, posts>>
         ELSE IF getTopic(req.topicId) = {}
         THEN resp' = PostResp(404, NULL) /\ UNCHANGED <<topics, posts>>
         ELSE IF \/ failAt = "getPostsForTopic" /\ Truthy(req.parentPostId)
                 \/ failAt = "insert"
         THEN resp' = PostResp(500, NULL) /\ UNCHANGED <<topics, posts>>
         ELSE /\ posts' = Append(posts, row)
              /\ topics' = IF failAt = "updateTopicActivity" THEN topics
                           ELSE updateTopicActivity(topics, req.topicId)
              /\ resp' = IF failAt \in {"updateTopicActivity", "getUser"}
                         THEN PostResp(500, NULL)
                         ELSE PostResp(200, Len(posts) + 1)
  /\ UNCHANGED <<now, ticks, voteVars, cacheVars, quotaVars, insightVars, memCache, authVars>>

(* POST /api/posts/:postId/vote where the storage call failAt throws; the
   history of toggle pairs is not kept here *)
ToggleVoteFault(u, postId, failAt) ==
  /\ \A p \in Procs : vproc[p].pc = "idle"
  /\ LET existing == selectVote(votes, postId, u) # {}
         after == IF existing THEN deleteVote(votes, postId, u)
                  ELSE insertVote(votes, postId, u)
     IN  IF failAt = "getPostById"
         THEN resp' = VoteResp(500, FALSE, 0) /\ UNCHANGED <<votes, lastToggle>>
         ELSE IF getPostById(postId) = {}
         THEN resp' = VoteResp(404, FALSE, 0) /\ UNCHANGED <<votes, lastToggle>>
         ELSE IF failAt \in {"select", "write"}
         THEN resp' = VoteResp(500, FALSE, 0) /\ UNCHANGED <<votes, lastToggle>>
         ELSE /\ votes' = after
              /\ resp' = IF failAt = "count" THEN VoteResp(500, FALSE, 0)
                         ELSE VoteResp(200, ~existing, voteCount(after, postId))
              /\ UNCHANGED lastToggle
  /\ UNCHANGED <<now, ticks, threadVars, vproc, cacheVars, quotaVars, insightVars, memCache, authVars>>

(* the requests come from one signed-in user *)
FaultUsers == {"u1"}

FaultPostReqs ==
  [topicId : TopicIds \cup {GhostId}, parentPostId : {NULL} \cup PostIds,
   bodyLen : {MinBody - 1, MinBody}]

NextFault ==
  \/ \E u \in FaultUsers, req \in FaultPostReqs, f \in PostFaults :
        CreatePostFault(u, req, f)
  \/ \E u \in FaultUsers, postId \in PostIds \cup {GhostId}, f \in VoteFaults :
        ToggleVoteFault(u, postId, f)
  \/ Tick

SpecFault == InitVote /\ [][NextFault]_vars

(* ------------------------------------------------------------------ *)
(* Claims about the reply threads                                      *)
(* ------------------------------------------------------------------ *)

(* C1: every stored post has depth 0 or 1, and every post of depth 1 has a
   non-null parentPostId whose post has depth 0. *)
C1_DepthZeroOrOne ==
  \A i \in PostIds :
    /\ posts[i].depth \in {0, 1}
    /\ posts[i].depth = 1 =>
         /\ posts[i].parentPostId # NULL
         /\ posts[i].parentPostId \in PostIds
         /\ posts[posts[i].parentPostId].depth = 0

(* the parent a request names resolves to a post of the request's topic *)
ParentInTopic(req) ==
  /\ req.parentPostId \in PostIds
  /\ posts[req.parentPostId].topicId = req.topicId

(* C2: a createPost whose parentPostId names a post of depth 1 stores the new
   post with depth 1 and with that post's own parent as its parent. *)
C2_ReplyToDepthOneFlattens ==
  [][\A u \in Users, req \in PostReqs :
       (/\ CreatePost(u, req)
        /\ createPostSchema(req)
        /\ getTopic(req.topicId) # {}
        /\ ParentInTopic(req)
        /\ posts[req.parentPostId].depth = 1)
       => /\ Len(posts') = Len(posts) + 1
          /\ posts'[Len(posts')].depth = 1
          /\ posts'[Len(posts')].parentPostId = posts[req.parentPostId].parentPostId]_vars

(* C3: createPost answers not-found, stores nothing and bumps no topic when the
   topic or a supplied parent does not resolve within the topic; so every stored
   parent reference names an existing post of the same topic. *)
C3_UnresolvedIsNotFound ==
  /\ [](\A i \in PostIds :
          posts[i].parentPostId # NULL =>
            /\ posts[i].parentPostId \in PostIds
            /\ posts[posts[i].parentPostId].topicId = posts[i].topicId)
  /\ [][\A u \in Users, req \in PostReqs :
          (/\ CreatePost(u, req)
           /\ createPostSchema(req)
           /\ \/ getTopic(req.topicId) = {}
              \/ Truthy(req.parentPostId) /\ ~ParentInTopic(req))
          => /\ resp'.status = 404
             /\ posts' = posts
             /\ topics' = topics]_vars

(* C4: a stored post with a parent has its parent's depth + 1, and a stored
   post has depth 0 only if it has no parent. *)
C4_DepthIsParentDepthPlusOne ==
  \A i \in PostIds :
    /\ posts[i].parentPostId # NULL =>
         /\ posts[i].parentPostId \in PostIds
         /\ posts[i].depth = posts[posts[i].parentPostId].depth + 1
    /\ posts[i].depth = 0 => posts[i].parentPostId = NULL

(* ------------------------------------------------------------------ *)
(* Claims about votes                                                  *)
(* ------------------------------------------------------------------ *)

(* C5 as stated: two toggleVote calls in immediate succession for one (post,
   user) leave the vote rows and the post's count as before the first call,
   and the second call returns voted = false. *)
C5_ToggleTwiceVotedFalse ==
  lastToggle.repeat =>
    /\ votes = lastToggle.origin
    /\ lastToggle.newCount = voteCount(lastToggle.origin, lastToggle.postId)
    /\ lastToggle.voted = FALSE

(* C5 amended: two toggleVote calls in immediate succession for one (post,
   user) leave the vote rows and the post's count as before the first call,
   and the second call returns voted = true exactly when the pair had a vote
   row before the first call (voted = false when it had none). *)
C5_ToggleTwiceRestores ==
  lastToggle.repeat =>
    /\ votes = lastToggle.origin
    /\ lastToggle.newCount = voteCount(lastToggle.origin, lastToggle.postId)
    /\ lastToggle.voted =
         (selectVote(lastToggle.origin, lastToggle.postId, lastToggle.userId) # {})

(* two successive toggles of a pair that had a vote, beside another user's vote *)
C5_Witness ==
  /\ lastToggle.repeat
  /\ lastToggle.voted
  /\ lastToggle.newCount = 2

(* C6: whatever the interleaving of concurrent toggleVote calls, the store
   never holds two vote rows for one (post, user) pair. *)
C6_AtMostOneRowPerPair ==
  \A postId \in PostIds, u \in Users : RowsOfPair(votes, postId, u) <= 1

(* two overlapping toggles of one pair both read "no vote"; one inserted, the
   other is at its insert, which the primary key will refuse *)
C6_Witness ==
  \E p, q \in Procs :
    /\ p # q
    /\ vproc[p].pc = "write" /\ ~vproc[p].existing
    /\ vproc[q].pc = "count" /\ ~vproc[q].existing
    /\ vproc[p].postId = vproc[q].postId
    /\ vproc[p].userId = vproc[q].userId
    /\ RowsOfPair(votes, vproc[p].postId, vproc[p].userId) = 1

(* ------------------------------------------------------------------ *)
(* Claims about the cache and the quota                                *)
(* ------------------------------------------------------------------ *)

(* what a get of the key must return at this instant: the payload of the most
   recent put if that put's expiry is strictly later than now, else a miss *)
ExpectedGet(flavor, k, ttl) ==
  LET lp == lastPut[flavor][k]
  IN  IF lp # NoPut /\ lp.at + ttl > now THEN lp.data ELSE Miss

(* C7: for both cache flavors, get returns the payload of the most recent put
   for the key iff that put's expiry (put time + TTL) is strictly later than
   the time of the get, and a miss otherwise. *)
C7_GetReturnsLastLivePut ==
  [][/\ \A k \in CacheKeys :
          GetTMDB(k) => resp'.result = ExpectedGet("tmdb", k, TMDB_TTL)
     /\ \A k \in CacheKeys :
          GetInsights(k) => resp'.result = ExpectedGet("insights", k, INSIGHTS_TTL)]_vars

(* C8: for a user, within one window exactly the first 5 checkQuota calls (each
   followed by incrementQuota) allow and the later ones deny; once the window
   has elapsed checkQuota allows again. *)
C8_FiveCyclesThenDeny ==
  resp.op = "checkQuota" => (resp.allow <=> resp.used < DAILY_LIMIT)

(* ------------------------------------------------------------------ *)
(* Claims about the insight request                                    *)
(* ------------------------------------------------------------------ *)

LivePut(k) ==
  /\ lastPut["insights"][k] # NoPut
  /\ lastPut["insights"][k].at + INSIGHTS_TTL > now

(* C9: a request by a known user with quota left on a subject without a cache
   entry calls the provider exactly once, stores the result in the insight
   cache and raises the user's quota count by exactly 1; a second identical
   request within the TTL is answered with the cached result, without a
   provider call and without a change of the quota table. *)
C9_GenerateOnceThenServeCached ==
  [][\A p \in Procs :
       /\ InsightIncrement(p) =>
            /\ iproc[p].calls = 1
            /\ getInsightsFromCache(iproc[p].key[1], iproc[p].key[2]) = iproc[p].insights
            /\ QuotaCount(quota', iproc[p].userId) = QuotaCount(quota, iproc[p].userId) + 1
       /\ (InsightCacheLookup(p) /\ LivePut(iproc[p].key)) =>
            /\ resp' = InsightResp(200, p, lastPut["insights"][iproc[p].key].data)
            /\ iproc'[p] = IdleInsight
            /\ aiCalls' = aiCalls
            /\ quota' = quota
    ]_vars

(* C10: the quota increment of a request runs only after the provider call of
   that request has returned content; when the provider call throws or returns
   no content the request ends with status 500, has made no increment, and the
   user's quota count equals the count before the request. *)
C10_IncrementOnlyAfterProvider ==
  [][\A p \in Procs :
       /\ InsightIncrement(p) =>
            /\ iproc[p].calls = 1
            /\ iproc[p].content # "none"
            /\ ~ProviderFailed(iproc[p].content)
       /\ \A outcome \in ProviderOutcomes :
            (InsightProvider(p, outcome) /\ ProviderFailed(outcome)) =>
               /\ ~iproc[p].incremented
               /\ incCalls' = incCalls
               /\ QuotaCount(quota', iproc[p].userId) = iproc[p].countAtBegin
               /\ resp'.status = 500
               /\ iproc'[p] = IdleInsight
    ]_vars

(* a known user's request has ended with 500 after the provider failed, and
   another request of a known user has been through the increment *)
C10_Witness ==
  /\ resp.op = "insights"
  /\ resp.status = 500
  /\ resp.known
  /\ \E k \in CacheKeys : aiCalls[k] >= 2
  /\ \E u \in Users : incCalls[u] >= 1
  /\ quota # {}

(* the step of process p ends its request with the given status *)
EndsWith(p, status) ==
  /\ iproc[p].pc # "idle"
  /\ iproc'[p].pc = "idle"
  /\ resp'.op = "insights"
  /\ resp'.status = status

(* C11: a request ends with 429 only from the quota check of a known user whose
   cache lookup missed and whose check denied; it has made no provider call
   and its last step changes neither the caches nor the quota count. A request
   without a user never reaches the quota check, and a cache hit is answered
   200 without touching the quota table. *)
C11_RateLimitOnlyOnDeniedQuota ==
  [][\A p \in Procs :
       /\ EndsWith(p, 429) =>
            /\ iproc[p].pc = "quotaWrite"
            /\ iproc[p].userId # NoUser
            /\ ~quotaAnswer(iproc[p].qrows)
            /\ iproc[p].calls = 0
            /\ aiCalls' = aiCalls
            /\ cacheVars' = cacheVars
            /\ QuotaCount(quota', iproc[p].userId) = QuotaCount(quota, iproc[p].userId)
       /\ iproc'[p].pc \in {"quotaRead", "quotaWrite"} => iproc'[p].userId # NoUser
       /\ (InsightCacheLookup(p)
             /\ getInsightsFromCache(iproc[p].key[1], iproc[p].key[2]) # Miss) =>
            /\ EndsWith(p, 200)
            /\ quotaVars' = quotaVars
            /\ aiCalls' = aiCalls
    ]_vars

(* a known user's request was answered 200 from the cache that a request
   without a user had filled: no quota row was ever written *)
C11_Witness ==
  /\ resp.op = "insights"
  /\ resp.status = 200
  /\ resp.known
  /\ nreq = 2
  /\ quota = {}
  /\ \A p \in Procs : iproc[p].pc = "idle"

(* C12: when the provider call throws or answers without content, the request
   ends with status 500 and a body that carries no insights, and the insight
   cache holds what it held before: no write was made for the request. *)
C12_FailedGenerationStoresNothing ==
  [][\A p \in Procs : \A outcome \in {"throws", "empty"} :
       InsightProvider(p, outcome) =>
          /\ EndsWith(p, 500)
          /\ resp'.result = Miss
          /\ insightsCache' = insightsCache
          /\ lastPut' = lastPut
    ]_vars

(* a generation has failed on a database that would have kept a write *)
C12_Witness ==
  /\ resp.op = "insights"
  /\ resp.status = 500
  /\ resp.result = Miss
  /\ cacheKeyUnique
  /\ insightsCache = {}
  /\ \E k \in CacheKeys : aiCalls[k] = 1

(* C13: a createPost or toggleVote request that answers 500 leaves the stored
   posts, the topic timestamps and the vote rows as they were before it. *)
C13_ErrorLeavesStoreUnchanged ==
  [][(/\ \/ \E u \in FaultUsers, req \in FaultPostReqs, f \in PostFaults :
              CreatePostFault(u, req, f)
         \/ \E u \in FaultUsers, postId \in PostIds \cup {GhostId}, f \in VoteFaults :
              ToggleVoteFault(u, postId, f)
      /\ resp'.status = 500)
       => (posts' = posts /\ topics' = topics /\ votes' = votes)
    ]_vars

(* C14: the provider returns content for a subject only when it has not
   returned content for that subject within the last INSIGHTS_TTL days: one
   generation per subject while its cache entry is unexpired, however the
   requests interleave. *)
C14_OneGenerationPerSubject ==
  [][\A p \in Procs : \A outcome \in ProviderOutcomes :
       (InsightProvider(p, outcome) /\ ~ProviderFailed(outcome)) =>
          \/ genAt[iproc[p].key] = NoGen
          \/ genAt[iproc[p].key] + INSIGHTS_TTL <= now
    ]_vars

(* C15: within one quota window a user's requests make at most DAILY_LIMIT
   provider calls, however the user's requests interleave. *)
C15_AtMostFivePaidCalls ==
  \A u \in Users : paid[u].n <= DAILY_LIMIT

(* C16: POST /api/topics with a prompt shorter than MinPrompt or longer than
   MaxPrompt answers 400 and stores no topic; with a prompt length in
   [MinPrompt, MaxPrompt] and a media type of the enum it answers 200 and
   appends exactly one topic, the one of the request. *)
C16_PromptLengthDecides ==
  [][\A u \in Users : \A req \in TopicReqs :
       CreateTopic(u, req) =>
         IF req.promptLen < MinPrompt \/ req.promptLen > MaxPrompt
         THEN resp'.status = 400 /\ topics' = topics
         ELSE req.mediaType \in MediaTypes =>
                /\ resp'.status = 200
                /\ Len(topics') = Len(topics) + 1
                /\ SubSeq(topics', 1, Len(topics)) = topics
                /\ topics'[Len(topics')].tmdbId = req.tmdbId
                /\ topics'[Len(topics')].mediaType = req.mediaType
                /\ resp'.id = Len(topics')
    ]_vars

(* a topic has been stored and a later request was refused *)
C16_Witness ==
  /\ resp.op = "createTopic"
  /\ resp.status = 400
  /\ Len(topics) = 1

(* C17: when the select, the first-time insert or the window-reset update of
   checkInsightQuota throws, or the insert meets the row of a concurrent first
   check, the check answers allow: the request goes on to the provider call,
   no 429 and no error is sent, and the failed statement leaves the quota
   table as it was. *)
C17_QuotaCheckFailsOpen ==
  [][\A p \in Procs :
       (\/ QuotaReadFault(p)
        \/ QuotaWriteFault(p)
        \/ InsightQuotaWrite(p) /\ InsertConflict(p)) =>
          /\ iproc'[p].pc = "provider"
          /\ resp' = resp
          /\ quota' = quota
    ]_vars

(* after a day, a known user is past the quota check although the store holds
   no row of the user: the statements of the check threw *)
C17_Witness ==
  \E p \in Procs :
    /\ iproc[p].pc = "provider"
    /\ iproc[p].userId # NoUser
    /\ QuotaRows(quota, iproc[p].userId) = {}
    /\ now >= QUOTA_WINDOW

(* C18: a throw of the store in a cache lookup is a miss: fetchFromTMDB
   answers with the live payload and the insight handler goes on to generate.
   A throw in a cache write or in the quota increment is swallowed:
   fetchFromTMDB still answers with the live payload, and the insight request
   still ends with 200 and the generated insights. *)
C18_CacheErrorsSwallowed ==
  [][/\ \A k \in CacheKeys : \A live \in TmdbData : \A rf, wf \in BOOLEAN :
          FetchFromTMDB(k, live, rf, wf) =>
             /\ resp'.status = 200
             /\ rf => resp'.result = live
             /\ (wf /\ getTMDBFromCache(k[1], k[2]) = Miss) =>
                   (resp'.result = live /\ tmdbCache' = tmdbCache)
     /\ \A p \in Procs :
          /\ InsightCacheLookupFault(p) =>
               /\ iproc'[p].pc \in {"quotaRead", "provider"}
               /\ resp' = resp
          /\ (InsightStoreFault(p) \/ InsightIncrementFault(p)) =>
               \/ iproc'[p] = [iproc[p] EXCEPT !.pc = "incr"] /\ resp' = resp
               \/ EndsWith(p, 200) /\ resp'.result = iproc[p].insights
    ]_vars

(* a request has ended with 200 and its generated insights although neither
   the cache write nor the quota increment left a trace in the store that
   would have kept them *)
C18_Witness ==
  /\ cacheKeyUnique
  /\ resp.op = "insights"
  /\ resp.status = 200
  /\ resp.known
  /\ resp.result = [list |-> 4]
  /\ insightsCache = {}
  /\ \E k \in CacheKeys : lastPut["tmdb"][k] # NoPut /\ tmdbCache # {}

(* C19: the insights a title request returns for a subject were generated for
   that subject. *)
C19_InsightsOfTheSameSubject ==
  (resp.op = "titleDetails" /\ resp.result # NoInsights) =>
     resp.result.for = resp.key

(* C20: checkInsightQuota(u) with no row of u inserts the row (count 0, limit
   DAILY_LIMIT, window start now) and allows; with a row whose window start
   is QUOTA_WINDOW or more in the past it sets the count to 0 and the window
   start to now and allows; otherwise it allows iff count < dailyLimit and
   leaves the table as it is. *)
C20_CheckQuotaDecision ==
  [][\A u \in Users :
       CheckQuota(u) =>
         LET rows == {r \in quota : r.userId = u}
         IN  IF rows = {}
             THEN /\ quota' = quota \cup {[userId |-> u, insightsGeneratedToday |-> 0,
                                           dailyLimit |-> DAILY_LIMIT,
                                           lastResetAt |-> now]}
                  /\ resp'.allow
             ELSE LET r == CHOOSE x \in rows : TRUE
                  IN  IF now - r.lastResetAt >= QUOTA_WINDOW
                      THEN /\ quota' = (quota \ {r}) \cup
                                 {[r EXCEPT !.insightsGeneratedToday = 0,
                                            !.lastResetAt = now]}
                           /\ resp'.allow
                      ELSE /\ quota' = quota
                           /\ resp'.allow <=> r.insightsGeneratedToday < r.dailyLimit
    ]_vars

(* a check has answered for a user whose row is older than the clock's last
   step and who has been through an increment in the running window *)
C20_Witness ==
  /\ resp.op = "checkQuota"
  /\ resp.allow
  /\ resp.used >= 1
  /\ now >= QUOTA_WINDOW
  /\ \E r \in quota : r.userId = resp.userId /\ r.lastResetAt = now

(* puts of both cache flavors, a day apart or on the same day *)
NextUpsert ==
  \/ \E k \in CacheKeys, d \in TmdbData : PutTMDB(k, d)
  \/ \E k \in CacheKeys, i \in InsightLists : PutInsights(k, i)
  \/ AdvanceDays(1)

SpecUpsert == InitStore /\ [][NextUpsert]_vars

(* title details fetched on a store that does not throw, days apart *)
NextFetch ==
  \/ \E k \in CacheKeys, live \in TmdbData \cup {LiveFailed} :
        FetchFromTMDB(k, live, FALSE, FALSE)
  \/ \E d \in DaySteps : AdvanceDays(d)

SpecFetch == InitStore /\ [][NextFetch]_vars

(* one insight request at a time, the provider answering with any content *)
NextParse ==
  \/ \E u \in {"u1", NoUser}, id \in TmdbIds : InsightBegin(1, u, "movie", id, TRUE)
  \/ InsightCacheLookup(1)
  \/ InsightQuotaRead(1)
  \/ InsightQuotaWrite(1)
  \/ \E content \in ProviderContents : InsightProvider(1, content)
  \/ InsightStore(1)
  \/ InsightIncrement(1)

SpecParse == InitStore /\ [][NextParse]_vars

(* the orders in which the rows of a set can be returned *)
OrdersOf(rows) ==
  {s \in [1..Cardinality(rows) -> rows] :
     \A i, j \in 1..Cardinality(rows) : i # j => s[i] # s[j]}

(* storage.getTopicsForMovie: where(tmdbId, mediaType).orderBy(desc(
   lastActivityAt)); the database is free in the order of rows of one
   timestamp, so the operator gives every order the statement may return *)
getTopicsForMovie(tmdbId, mediaType) ==
  LET rows == {topics[i] : i \in {j \in TopicIds :
                  topics[j].tmdbId = tmdbId /\ topics[j].mediaType = mediaType}}
  IN  {s \in OrdersOf(rows) :
         \A i, j \in 1..Cardinality(rows) :
            i < j => s[i].lastActivityAt >= s[j].lastActivityAt}

(* GET /api/topics?tmdbId=..&mediaType=.. ; a missing or zero tmdbId is a 400,
   a missing or empty mediaType is 'movie' *)
ListTopics(tmdbId, mediaType) ==
  /\ IF tmdbId = NULL
     THEN resp' = [op |-> "listTopics", status |-> 400, id |-> NULL]
     ELSE \E s \in getTopicsForMovie(tmdbId, IF mediaType = "" THEN "movie"
                                             ELSE mediaType) :
            resp' = [op |-> "listTopics", status |-> 200, id |-> NULL,
                     result |-> s]
  /\ UNCHANGED <<now, ticks, threadVars, voteVars, cacheVars, quotaVars, insightVars, memCache, authVars>>

ListTopicReqs == [tmdbId : TmdbIds, mediaType : MediaTypes, promptLen : {MinPrompt}]
ListPostReqs ==
  [topicId : TopicIds, parentPostId : {NULL}, bodyLen : {MinBody}]

(* topics are opened, posted to and listed while time passes *)
NextList ==
  \/ \E req \in ListTopicReqs : CreateTopic("u1", req)
  \/ \E req \in ListPostReqs : Len(posts) < MaxListPosts /\ CreatePost("u1", req)
  \/ \E tmdbId \in TmdbIds, mediaType \in MediaTypes \cup {""} :
        ListTopics(tmdbId, mediaType)
  \/ Tick

SpecList == Init /\ [][NextList]_vars

(* the vote columns of a joined row no vote matched *)
NoVote == [null |-> TRUE]

(* an inner join: a post without votes has no joined row *)
LeftJoinVotes_Inner(p, vs) ==
  {[post |-> p, vote |-> r] : r \in {v \in BagToSet(vs) : v.postId = p.id}}

(* leftJoin(postVotes, eq(discussionPosts.id, postVotes.postId)): one joined
   row per matching vote row, or one row with null vote columns *)
LeftJoinVotes(p, vs) ==
  LET matching == {v \in BagToSet(vs) : v.postId = p.id}
  IN  IF matching = {} THEN {[post |-> p, vote |-> NoVote]}
      ELSE {[post |-> p, vote |-> r] : r \in matching}

(* coalesce(sum(postVotes.value), 0)::int over the joined rows of one group;
   sum skips the null values *)
CoalesceSum(group, vs) ==
  LET valued == {j \in group : j.vote # NoVote}
  IN  SumOver(valued, [j \in valued |-> j.vote.value * CopiesIn(j.vote, vs)])

(* storage.getPostsForTopic as a whole: the posts of the topic joined to their
   votes, grouped by post id, ordered by createdAt; every order the statement
   may return among posts of one timestamp *)
getPostsForTopicWithVotes(topicId) ==
  LET joined == UNION {LeftJoinVotes(p, votes) : p \in getPostsForTopic(topicId)}
      groupKeys == {j.post.id : j \in joined}
      groupOf(id) == {j \in joined : j.post.id = id}
      rows == {[id |-> id,
                topicId |-> (CHOOSE j \in groupOf(id) : TRUE).post.topicId,
                createdAt |-> (CHOOSE j \in groupOf(id) : TRUE).post.createdAt,
                voteCount |-> CoalesceSum(groupOf(id), votes)] : id \in groupKeys}
  IN  {s \in OrdersOf(rows) :
         \A i, j \in 1..Cardinality(rows) : i < j => s[i].createdAt <= s[j].createdAt}

(* a call of storage.getPostsForTopic *)
ListPosts(topicId) ==
  /\ \E s \in getPostsForTopicWithVotes(topicId) :
        resp' = [op |-> "listPosts", status |-> 200, id |-> topicId, result |-> s]
  /\ UNCHANGED <<now, ticks, threadVars, voteVars, cacheVars, quotaVars, insightVars, memCache, authVars>>

(* a post written on an earlier day or today *)
StoredPost(id, topicId, createdAt) ==
  [id |-> id, topicId |-> topicId, parentPostId |-> NULL, authorId |-> "u1",
   depth |-> 0, createdAt |-> createdAt]

(* a store that holds two topics of one subject and three posts: the first in
   topic 1, the others in either topic, written yesterday or today in the
   order of their ids *)
InitPosts ==
  /\ InitCacheQuota
  /\ topics = [i \in 1..2 |->
                [id |-> i, tmdbId |-> 550, mediaType |-> "movie", lastActivityAt |-> now]]
  /\ \E t2, t3 \in 1..2 : \E c1, c2 \in {now - 1, now} :
        /\ c1 <= c2
        /\ posts = <<StoredPost(1, 1, c1), StoredPost(2, t2, c2), StoredPost(3, t3, now)>>
  /\ votes = EmptyBag
  /\ vproc = [p \in Procs |-> IdleProc]
  /\ lastToggle = NoToggle
  /\ resp = [op |-> "none", status |-> 0, id |-> NULL]

(* the posts are voted on and the topics are listed; the history of toggle
   pairs is not kept *)
NextPosts ==
  \/ \E u \in Users, postId \in PostIds : ToggleVoteFault(u, postId, "none")
  \/ \E topicId \in TopicIds \cup {GhostId} : ListPosts(topicId)

SpecPosts == InitPosts /\ [][NextPosts]_vars

(* release_date || first_air_date of a credit, in years from today; a credit
   without either has no date *)
Undated == [dated |-> FALSE, at |-> 0]
Dated(year) == [dated |-> TRUE, at |-> year]
CreditDates ==
  {Undated, Dated(0 - TrailingYears - 1), Dated(0 - TrailingYears), Dated(-1), Dated(1)}

(* the cast list of a person-credits answer: credit i carries the title i *)
CreditLists ==
  UNION {[1..n -> CreditDates] : n \in 0..MaxCredits}

(* what the person-credits lookup answers: a cast list, or it throws *)
CreditsFailed == [failed |-> TRUE, cast |-> <<>>]
CreditAnswers == {[failed |-> FALSE, cast |-> c] : c \in CreditLists} \cup {CreditsFailed}

(* the filter: no date, or date >= today two years ago *)
IsRecent(date) == ~date.dated \/ date.at >= 0 - TrailingYears

(* a sort that gives a credit without a date the earliest date *)
SortDate_FarPast(date) == IF ~date.dated THEN 0 - FarFuture ELSE date.at

(* new Date(release_date || first_air_date || '9999') *)
SortDate(date) == IF ~date.dated THEN FarFuture ELSE date.at

(* filter(..).sort((a, b) => dateB - dateA): the recent credits by descending
   date; Array.prototype.sort is stable, credits of one date keep their order *)
SortedRecent(credits) ==
  LET recent == {i \in DOMAIN credits : IsRecent(credits[i])}
  IN  CHOOSE s \in OrdersOf(recent) :
        \A i, j \in 1..Cardinality(recent) :
           i < j => \/ SortDate(credits[s[i]]) > SortDate(credits[s[j]])
                    \/ /\ SortDate(credits[s[i]]) = SortDate(credits[s[j]])
                       /\ s[i] < s[j]

(* fetchActorProjects: .slice(0, 3).map(title), [] when the lookup throws *)
fetchActorProjects(credits) ==
  IF credits.failed THEN <<>>
  ELSE LET s == SortedRecent(credits.cast)
       IN  [i \in 1..(IF Len(s) < RecentLimit THEN Len(s) ELSE RecentLimit) |-> s[i]]

(* the person-credits lookup has answered; fetchActorProjects has yet to work
   on the answer *)
InitActor ==
  /\ InitCacheQuota
  /\ topics = <<>>
  /\ posts = <<>>
  /\ votes = EmptyBag
  /\ vproc = [p \in Procs |-> IdleProc]
  /\ lastToggle = NoToggle
  /\ resp \in {[op |-> "personCredits", status |-> 200, id |-> NULL, credits |-> c] :
                 c \in CreditAnswers}

(* fetchActorProjects works on the provider's answer *)
FetchActorProjects ==
  /\ resp.op = "personCredits"
  /\ resp' = [op |-> "actorProjects", status |-> 200, id |-> NULL,
              credits |-> resp.credits, result |-> fetchActorProjects(resp.credits)]
  /\ UNCHANGED <<now, ticks, threadVars, voteVars, cacheVars, quotaVars, insightVars, memCache, authVars>>

NextActor == FetchActorProjects

SpecActor == InitActor /\ [][NextActor]_vars

(* ---- sign-in: login tokens, sessions, the auth middlewares ---- *)

(* a timestamp column that is null *)
NoTime == -1

TokenIds == 1..Len(authTokens)
SessionIds == 1..Len(sessions)

(* storage.createAuthToken: a fresh token, valid for 15 minutes *)
createAuthToken(ts, email, userId) ==
  Append(ts, [id |-> Len(ts) + 1, destinationEmail |-> email, userId |-> userId,
              expiresAt |-> now + TOKEN_TTL, consumedAt |-> NoTime])

(* storage.getUserByEmail *)
getUserByEmail(email) == {u \in users : u = email}

(* storage.verifyAuthToken(token, false): the rows with the token's hash that
   are not consumed and not expired *)
verifyAuthToken(token) ==
  {authTokens[i] : i \in {j \in TokenIds :
      j = token /\ authTokens[j].consumedAt = NoTime /\ authTokens[j].expiresAt > now}}

(* storage.consumeAuthToken *)
consumeAuthToken(ts, tokenId) ==
  [i \in DOMAIN ts |-> IF i = tokenId THEN [ts[i] EXCEPT !.consumedAt = now] ELSE ts[i]]

(* storage.createSession; the row also remembers the token whose verify
   request created it, which the table does not *)
createSession(ss, userId, tokenId) ==
  Append(ss, [id |-> Len(ss) + 1, userId |-> userId, lastActive |-> now,
              revokedAt |-> NoTime, token |-> tokenId])

(* a lookup that does not look at revoked_at *)
getSession_IgnoresRevoked(sessionId) ==
  {sessions[i] : i \in {j \in SessionIds : j = sessionId}}

(* storage.getSession: where(id = .., isNull(revokedAt)) *)
getSession(sessionId) ==
  {sessions[i] : i \in {j \in SessionIds :
      j = sessionId /\ sessions[j].revokedAt = NoTime}}

(* storage.updateSessionActivity *)
updateSessionActivity(ss, sessionId) ==
  [i \in DOMAIN ss |-> IF i = sessionId THEN [ss[i] EXCEPT !.lastActive = now] ELSE ss[i]]

(* storage.revokeSession *)
revokeSession(ss, sessionId) ==
  [i \in DOMAIN ss |-> IF i = sessionId THEN [ss[i] EXCEPT !.revokedAt = now] ELSE ss[i]]

AuthResp(op, status, sessionId, userId) ==
  [op |-> op, status |-> status, id |-> NULL, sessionId |-> sessionId,
   userId |-> userId]

(* POST /api/auth/request-login with a well-formed email: two tokens are
   stored, the first one is returned *)
RequestLogin(email) ==
  /\ Len(authTokens) < MaxTokens
  /\ LET userId == IF getUserByEmail(email) # {} THEN email ELSE NoUser
     IN  /\ authTokens' = createAuthToken(createAuthToken(authTokens, email, userId),
                                          email, userId)
         /\ resp' = [op |-> "requestLogin", status |-> 200, id |-> NULL,
                     token |-> Len(authTokens) + 1,
                     isNewUser |-> getUserByEmail(email) = {}]
  /\ UNCHANGED <<now, ticks, threadVars, voteVars, cacheVars, quotaVars, insightVars,
                 memCache, users, sessions, aproc>>

VerifyResp(status, sessionId, token) ==
  [op |-> "verify", status |-> status, id |-> NULL, sessionId |-> sessionId,
   token |-> token]

(* POST /api/auth/verify up to the token check: verifyAuthToken(token, false) *)
VerifyBegin(p, token, hasName) ==
  /\ aproc[p].pc = "idle"
  /\ IF token = NULL \/ verifyAuthToken(token) = {}
     THEN /\ resp' = VerifyResp(400, NULL, token)
          /\ UNCHANGED aproc
     ELSE /\ aproc' = [aproc EXCEPT ![p] =
                 [pc |-> "find", token |-> token, hasName |-> hasName,
                  tokenId |-> token, email |-> authTokens[token].destinationEmail]]
          /\ UNCHANGED resp
  /\ UNCHANGED <<now, ticks, threadVars, voteVars, cacheVars, quotaVars, insightVars,
                 memCache, users, authTokens, sessions>>

(* let user = await storage.getUserByEmail(result.email), and the display name
   check for a new user *)
VerifyFindUser(p) ==
  /\ aproc[p].pc = "find"
  /\ IF getUserByEmail(aproc[p].email) # {}
     THEN aproc' = [aproc EXCEPT ![p].pc = "consume"] /\ UNCHANGED resp
     ELSE IF ~aproc[p].hasName
     THEN /\ resp' = VerifyResp(400, NULL, aproc[p].token)
          /\ aproc' = [aproc EXCEPT ![p] = IdleVerify]
     ELSE aproc' = [aproc EXCEPT ![p].pc = "create"] /\ UNCHANGED resp
  /\ UNCHANGED <<now, ticks, threadVars, voteVars, cacheVars, quotaVars, insightVars,
                 memCache, users, authTokens, sessions>>

(* user = await storage.createUser(..): the unique email refuses a second row *)
VerifyCreateUser(p) ==
  /\ aproc[p].pc = "create"
  /\ IF aproc[p].email \in users
     THEN /\ resp' = VerifyResp(500, NULL, aproc[p].token)
          /\ aproc' = [aproc EXCEPT ![p] = IdleVerify]
          /\ UNCHANGED users
     ELSE /\ users' = users \cup {aproc[p].email}
          /\ aproc' = [aproc EXCEPT ![p].pc = "consume"]
          /\ UNCHANGED resp
  /\ UNCHANGED <<now, ticks, threadVars, voteVars, cacheVars, quotaVars, insightVars,
                 memCache, authTokens, sessions>>

(* await storage.consumeAuthToken(result.tokenId) *)
VerifyConsume(p) ==
  /\ aproc[p].pc = "consume"
  /\ authTokens' = consumeAuthToken(authTokens, aproc[p].tokenId)
  /\ aproc' = [aproc EXCEPT ![p].pc = "session"]
  /\ UNCHANGED <<now, ticks, threadVars, voteVars, cacheVars, quotaVars, insightVars,
                 memCache, users, sessions, resp>>

(* const sessionId = await storage.createSession(user.id), and the response *)
VerifyCreateSession(p) ==
  /\ aproc[p].pc = "session"
  /\ sessions' = createSession(sessions, aproc[p].email, aproc[p].tokenId)
  /\ resp' = VerifyResp(200, Len(sessions) + 1, aproc[p].token)
  /\ aproc' = [aproc EXCEPT ![p] = IdleVerify]
  /\ UNCHANGED <<now, ticks, threadVars, voteVars, cacheVars, quotaVars, insightVars,
                 memCache, users, authTokens>>

VerifySteps(p) ==
  \/ \E token \in TokenIds \cup {NULL, GhostId}, hasName \in BOOLEAN :
        VerifyBegin(p, token, hasName)
  \/ VerifyFindUser(p)
  \/ VerifyCreateUser(p)
  \/ VerifyConsume(p)
  \/ VerifyCreateSession(p)

(* authMiddleware in front of GET /api/auth/me: 401 without a live session,
   otherwise the session is touched and the user is the request's user *)
AuthRequest(sessionId) ==
  /\ IF sessionId = NULL \/ getSession(sessionId) = {}
     THEN /\ resp' = AuthResp("me", 401, sessionId, NoUser)
          /\ UNCHANGED sessions
     ELSE /\ sessions' = updateSessionActivity(sessions, sessionId)
          /\ resp' = AuthResp("me", 200, sessionId,
                              (CHOOSE r \in getSession(sessionId) : TRUE).userId)
  /\ UNCHANGED <<now, ticks, threadVars, voteVars, cacheVars, quotaVars, insightVars,
                 memCache, users, authTokens, aproc>>

(* optionalAuthMiddleware in front of a route that answers either way: the
   user is attached only with a live session *)
OptionalRequest(sessionId) ==
  /\ IF sessionId = NULL \/ getSession(sessionId) = {}
     THEN /\ resp' = AuthResp("optional", 200, sessionId, NoUser)
          /\ UNCHANGED sessions
     ELSE /\ sessions' = updateSessionActivity(sessions, sessionId)
          /\ resp' = AuthResp("optional", 200, sessionId,
                              (CHOOSE r \in getSession(sessionId) : TRUE).userId)
  /\ UNCHANGED <<now, ticks, threadVars, voteVars, cacheVars, quotaVars, insightVars,
                 memCache, users, authTokens, aproc>>

(* POST /api/auth/logout: authMiddleware, then storage.revokeSession *)
Logout(sessionId) ==
  /\ IF sessionId = NULL \/ getSession(sessionId) = {}
     THEN /\ resp' = AuthResp("logout", 401, sessionId, NoUser)
          /\ UNCHANGED sessions
     ELSE /\ sessions' = revokeSession(updateSessionActivity(sessions, sessionId),
                                       sessionId)
          /\ resp' = AuthResp("logout", 200, sessionId,
                              (CHOOSE r \in getSession(sessionId) : TRUE).userId)
  /\ UNCHANGED <<now, ticks, threadVars, voteVars, cacheVars, quotaVars, insightVars,
                 memCache, users, authTokens, aproc>>

(* minutes pass *)
AdvanceMinutes(d) ==
  /\ ticks < MaxTicks
  /\ ticks' = ticks + 1
  /\ now' = now + d
  /\ UNCHANGED <<threadVars, voteVars, cacheVars, quotaVars, resp, insightVars,
                 memCache, authVars>>

(* one user signs in, one request at a time, uses the sessions and signs out *)
NextSession ==
  \/ RequestLogin("u1")
  \/ VerifySteps(1)
  \/ \E sessionId \in SessionIds \cup {NULL, GhostId} : AuthRequest(sessionId)
  \/ \E sessionId \in SessionIds \cup {NULL, GhostId} : OptionalRequest(sessionId)
  \/ \E sessionId \in SessionIds \cup {NULL, GhostId} : Logout(sessionId)
  \/ AdvanceMinutes(TOKEN_TTL)

SpecSession == Init /\ [][NextSession]_vars

(* verify requests of several clients run side by side *)
NextVerifyRace ==
  \/ \E email \in Users : RequestLogin(email)
  \/ \E p \in Procs : VerifySteps(p)

SpecVerifyRace == Init /\ [][NextVerifyRace]_vars

(* Claims about the cache tables, the title details and the listings *)

(* the row a put of the payload writes at the current time *)
PutRow(k, data, ttl) ==
  [tmdbId |-> k[1], mediaType |-> k[2], data |-> Stringify(data),
   expiresAt |-> now + ttl]

(* C21: each cache flavor holds at most one entry per (subject id, media kind)
   in every reachable state; a put for a key that has an entry replaces that
   entry's payload and expiry (time of the put + TTL), leaves the entries of
   the other keys alone and adds no second entry. *)
C21_PutReplacesTheEntry ==
  [][/\ \A k \in CacheKeys :
          /\ Cardinality(SameKey(tmdbCache', k[1], k[2])) <= 1
          /\ Cardinality(SameKey(insightsCache', k[1], k[2])) <= 1
     /\ \A k \in CacheKeys, d \in TmdbData :
          (PutTMDB(k, d) /\ SameKey(tmdbCache, k[1], k[2]) # {}) =>
             tmdbCache' = (tmdbCache \ SameKey(tmdbCache, k[1], k[2]))
                             \cup {PutRow(k, d, TMDB_TTL)}
     /\ \A k \in CacheKeys, i \in InsightLists :
          (PutInsights(k, i) /\ SameKey(insightsCache, k[1], k[2]) # {}) =>
             insightsCache' = (insightsCache \ SameKey(insightsCache, k[1], k[2]))
                                 \cup {PutRow(k, i, INSIGHTS_TTL)}]_vars

(* a put has met an entry of its key that an earlier put wrote on an earlier
   day, and the entry now carries the later put's payload and expiry *)
C21_Witness ==
  /\ resp.op = "putTMDB"
  /\ resp.existing
  /\ now > 0
  /\ SameKey(tmdbCache, resp.key[1], resp.key[2])
       = {PutRow(resp.key, resp.result, TMDB_TTL)}
  /\ \E k \in CacheKeys : k # resp.key /\ SameKey(tmdbCache, k[1], k[2]) # {}

(* C22: fetchFromTMDB of a title is cache-first: with an unexpired entry of
   the key the cached payload is returned and the table is left alone whatever
   the provider would answer; on a miss with a provider answer the answer is
   returned and stored under the key with the metadata TTL; on a miss with a
   failing provider the request fails and nothing is stored. *)
C22_FetchIsCacheFirst ==
  [][\A k \in CacheKeys : \A live \in TmdbData \cup {LiveFailed} :
       FetchFromTMDB(k, live, FALSE, FALSE) =>
         LET cached == getTMDBFromCache(k[1], k[2])
         IN  IF cached # Miss
             THEN /\ resp'.status = 200
                  /\ resp'.result = cached
                  /\ tmdbCache' = tmdbCache
             ELSE IF live = LiveFailed
             THEN /\ resp'.status = 500
                  /\ tmdbCache' = tmdbCache
             ELSE /\ resp'.status = 200
                  /\ resp'.result = live
                  /\ tmdbCache' = (tmdbCache \ SameKey(tmdbCache, k[1], k[2]))
                                     \cup {PutRow(k, live, TMDB_TTL)}
    ]_vars

(* the contents that are not the structured answer asked for: unparseable
   text, an object without insights, an object whose insights are not a list *)
Malformed == {"notjson", "nokey", "notlist"}

(* C23: a provider answer that has content but is malformed does not fail the
   request: the handler goes on with an empty insight list, which is what the
   request is answered with. *)
C23_MalformedIsEmptyList ==
  [][\A p \in Procs : \A content \in Malformed :
       InsightProvider(p, content) =>
          /\ iproc'[p].pc = "store"
          /\ iproc'[p].insights = [list |-> 0]
          /\ resp' = resp]_vars

(* the last response is that of a created post *)
PostCreated == resp.op = "createPost" /\ resp.status = 200

(* the topic of the post the last response reports *)
TopicOfCreated == topics[posts[resp.id].topicId]

(* a listing of the subject of the topic that was just posted to *)
ListsSubjectOfCreated(tmdbId, mediaType) ==
  /\ PostCreated
  /\ tmdbId = TopicOfCreated.tmdbId
  /\ mediaType = TopicOfCreated.mediaType
  /\ ListTopics(tmdbId, mediaType)

(* C24 as stated: right after a successful createPost on topic T, T is the
   first topic listTopics returns for T's subject, and T's last-activity is
   not earlier than the creation time of any of T's posts. *)
C24_PostedTopicIsFirst ==
  [][\A tmdbId \in TmdbIds, mediaType \in MediaTypes :
       ListsSubjectOfCreated(tmdbId, mediaType) =>
          /\ resp'.result[1].id = TopicOfCreated.id
          /\ \A p \in getPostsForTopic(TopicOfCreated.id) :
                TopicOfCreated.lastActivityAt >= p.createdAt]_vars

(* C24 amended: listTopics returns exactly the subject's topics, each once, in
   descending last-activity order; right after a successful createPost on T
   the last-activity of T is the time of the post, no topic of the subject has
   a later one, so only topics with the same last-activity as T can come
   before T in the list; and T's last-activity is not earlier than the
   creation time of any of T's posts. *)
C24_PostedTopicIsLatest ==
  [][\A tmdbId \in TmdbIds, mediaType \in MediaTypes :
       ListsSubjectOfCreated(tmdbId, mediaType) =>
          LET T == TopicOfCreated
              s == resp'.result
          IN  /\ {s[i] : i \in DOMAIN s} =
                    {topics[i] : i \in {j \in TopicIds :
                        topics[j].tmdbId = tmdbId /\ topics[j].mediaType = mediaType}}
              /\ \A i, j \in DOMAIN s : i # j => s[i] # s[j]
              /\ \A i, j \in DOMAIN s : i < j => s[i].lastActivityAt >= s[j].lastActivityAt
              /\ T.lastActivityAt = posts[resp.id].createdAt
              /\ \A i \in DOMAIN s : s[i].lastActivityAt <= T.lastActivityAt
              /\ \A p \in getPostsForTopic(T.id) : T.lastActivityAt >= p.createdAt
    ]_vars

(* a listing of two topics of one subject has put the topic that was posted to
   at the current time before the topic whose last activity is older *)
C24_Witness ==
  /\ resp.op = "listTopics"
  /\ resp.status = 200
  /\ Len(resp.result) = 2
  /\ resp.result[1].lastActivityAt > resp.result[2].lastActivityAt
  /\ resp.result[1].id < resp.result[2].id
  /\ \E p \in getPostsForTopic(resp.result[1].id) :
        p.createdAt = now /\ resp.result[1].lastActivityAt = now

(* C25: getPostsForTopic(topic) returns every post of the topic exactly once,
   whether the post has several vote rows, one or none, and no post of another
   topic, in ascending order of creation time, each with a vote count equal to
   the sum of the values of the vote rows stored for that post (0 when there
   are none). *)
C25_ListPostsComplete ==
  [][\A topicId \in TopicIds \cup {GhostId} :
       ListPosts(topicId) =>
          LET s == resp'.result
          IN  /\ {s[i].id : i \in DOMAIN s} =
                    {i \in PostIds : posts[i].topicId = topicId}
              /\ \A i, j \in DOMAIN s : i # j => s[i].id # s[j].id
              /\ \A i, j \in DOMAIN s : i < j => s[i].createdAt <= s[j].createdAt
              /\ \A i \in DOMAIN s :
                    /\ s[i].createdAt = posts[s[i].id].createdAt
                    /\ s[i].voteCount = voteCount(votes, s[i].id)]_vars

(* a listing has returned two posts of different creation times, the earlier
   one with the votes of two users and the later one with none, while another
   topic holds a post as well *)
C25_Witness ==
  /\ resp.op = "listPosts"
  /\ Len(resp.result) = 2
  /\ resp.result[1].createdAt < resp.result[2].createdAt
  /\ resp.result[1].voteCount = 2
  /\ resp.result[2].voteCount = 0
  /\ \E i \in PostIds : posts[i].topicId # resp.id

(* the credits of the last answer that are named in the result *)
Listed == {resp.result[i] : i \in DOMAIN resp.result}

(* the date of the credit named at position i of the result *)
DateAt(i) == resp.credits.cast[resp.result[i]]

(* C26 as stated: at most 3 titles, each of a credit that is undated or dated
   within the trailing 2 years, ordered by release date descending with the
   undated ones last, so a dated recent credit is never left out while an
   undated one is returned; an empty list when the lookup fails. *)
C26_UndatedSortLast ==
  resp.op = "actorProjects" =>
    IF resp.credits.failed THEN resp.result = <<>>
    ELSE /\ Len(resp.result) <= RecentLimit
         /\ \A i \in DOMAIN resp.result : IsRecent(DateAt(i))
         /\ \A i, j \in DOMAIN resp.result :
               i < j => /\ DateAt(i) = Undated => DateAt(j) = Undated
                        /\ (DateAt(i) # Undated /\ DateAt(j) # Undated)
                              => DateAt(i).at >= DateAt(j).at
         /\ \A c \in DOMAIN resp.credits.cast :
               (resp.credits.cast[c] # Undated /\ IsRecent(resp.credits.cast[c])
                  /\ c \notin Listed)
                  => \A i \in DOMAIN resp.result : DateAt(i) # Undated

(* C26 amended: the result names min(3, number of recent credits) distinct
   credits, each undated or dated no earlier than two years ago; the undated
   ones come first, the dated ones after them by descending date; a recent
   credit is left out only when the three returned ones are undated or dated
   no earlier than it; an empty list when the lookup fails. *)
C26_UndatedSortFirst ==
  resp.op = "actorProjects" =>
    IF resp.credits.failed THEN resp.result = <<>>
    ELSE LET recent == {c \in DOMAIN resp.credits.cast : IsRecent(resp.credits.cast[c])}
         IN  /\ Len(resp.result) =
                   IF Cardinality(recent) < RecentLimit THEN Cardinality(recent)
                   ELSE RecentLimit
             /\ Listed \subseteq recent
             /\ \A i, j \in DOMAIN resp.result : i # j => resp.result[i] # resp.result[j]
             /\ \A i, j \in DOMAIN resp.result :
                   i < j => /\ DateAt(j) = Undated => DateAt(i) = Undated
                            /\ (DateAt(i) # Undated /\ DateAt(j) # Undated)
                                  => DateAt(i).at >= DateAt(j).at
             /\ \A c \in recent \ Listed : \A i \in DOMAIN resp.result :
                   \/ DateAt(i) = Undated
                   \/ resp.credits.cast[c] # Undated /\ DateAt(i).at >= resp.credits.cast[c].at

(* the answer held four recent credits, dated and undated: the three returned
   begin with an undated one and a dated recent credit was left out *)
C26_Witness ==
  /\ resp.op = "actorProjects"
  /\ ~resp.credits.failed
  /\ Len(resp.result) = RecentLimit
  /\ DateAt(1) = Undated
  /\ DateAt(RecentLimit) # Undated
  /\ \E c \in DOMAIN resp.credits.cast :
        c \notin Listed /\ resp.credits.cast[c] # Undated /\ IsRecent(resp.credits.cast[c])

(* C27: a session that carries a revoked mark keeps it in every step, and a
   request that names a revoked session is treated as unauthenticated: the
   routes behind authMiddleware answer 401 and change nothing, the routes
   behind optionalAuthMiddleware go on without a user. *)
C27_RevokedStaysUnauthenticated ==
  [][/\ \A i \in SessionIds :
          sessions[i].revokedAt # NoTime =>
             (i \in DOMAIN sessions' /\ sessions'[i].revokedAt # NoTime)
     /\ \A i \in SessionIds :
          sessions[i].revokedAt # NoTime =>
             /\ (AuthRequest(i) \/ Logout(i)) =>
                   (resp'.status = 401 /\ sessions' = sessions)
             /\ OptionalRequest(i) =>
                   (resp'.userId = NoUser /\ sessions' = sessions)]_vars

(* a request behind authMiddleware has named a session that was signed out
   at an earlier time and got 401, while the user's other session is live *)
C27_Witness ==
  /\ resp.op = "me"
  /\ resp.status = 401
  /\ resp.sessionId \in SessionIds
  /\ sessions[resp.sessionId].revokedAt # NoTime
  /\ sessions[resp.sessionId].revokedAt < now
  /\ \E i \in SessionIds : sessions[i].revokedAt = NoTime

(* C28: a login token yields at most one session. *)
C28_OneSessionPerToken ==
  \A t \in TokenIds :
     Cardinality({i \in SessionIds : sessions[i].token = t}) <= 1

(* C29: when the provider's content parses to no insights, the request of a
   known user leaves the empty list in the insight cache with the full insight
   TTL and the user's quota count one higher; a later request for the subject
   before the expiry is answered with the empty list without a provider call. *)
C29_EmptyListIsCachedAndCharged ==
  [][\A p \in Procs :
       /\ (InsightIncrement(p) /\ iproc[p].insights = [list |-> 0]) =>
            /\ PutRow(iproc[p].key, [list |-> 0], INSIGHTS_TTL) \in insightsCache
            /\ QuotaCount(quota', iproc[p].userId) =
                  QuotaCount(quota, iproc[p].userId) + 1
       /\ (InsightCacheLookup(p) /\ LivePut(iproc[p].key)
             /\ lastPut["insights"][iproc[p].key].data = [list |-> 0]) =>
            /\ resp' = InsightResp(200, p, [list |-> 0])
            /\ aiCalls' = aiCalls
    ]_vars

(* C30: a successful toggleVote(post, user) changes only the vote row of that
   pair: the rows of other users on the post and the rows of other posts are
   there as often as before, and no post or topic row changes (the topic's
   last activity included). *)
C30_ToggleTouchesOnePair ==
  [][\A u \in Users : \A postId \in PostIds :
       (ToggleVote(u, postId) /\ resp'.status = 200) =>
          /\ \A r \in BagToSet(votes) \cup BagToSet(votes') :
                (r.postId # postId \/ r.userId # u) =>
                   CopiesIn(r, votes') = CopiesIn(r, votes)
          /\ RowsOfPair(votes', postId, u) # RowsOfPair(votes, postId, u)
          /\ posts' = posts
          /\ topics' = topics]_vars

(* a user has taken back a vote on a post that another user has voted on as
   well, while another post carries a vote *)
C30_Witness ==
  /\ resp.op = "vote"
  /\ resp.status = 200
  /\ ~resp.voted
  /\ resp.newCount = 1
  /\ \E r \in BagToSet(votes) :
        r.postId = lastToggle.postId /\ r.userId # lastToggle.userId
  /\ \E r \in BagToSet(votes) : r.postId # lastToggle.postId

====
